---- MODULE Spec2Model ----
(***************************************************************************)
(* State-machine model of the FocusGuard decision core                     *)
(* (src/focusguard): the focus-currency wallet, the interaction audit,     *)
(* the action manager's timers, the supervision loop, the metabolism       *)
(* scheduler and the app-block watchdog.                                   *)
(*                                                                         *)
(* Time is counted in seconds.  Each subsystem has its own group of        *)
(* variables and its own specification; a specification leaves the other   *)
(* groups at their initial values.                                         *)
(***************************************************************************)
EXTENDS Integers, Sequences, FiniteSets, TLC

None == "None"

\* An optional number (Python None or an int): the empty or the one-element sequence
Nil == <<>>
Some(v) == <<v>>
Val(o) == o[1]

(***************************************************************************)
(* Bounds of the model.                                                    *)
(***************************************************************************)
MaxCalls == 3
MaxAmount == 2
MaxInitialBalance == 2
MaxReward == 1
MaxDurationMinutes == 1
MaxChoices == 1
MaxTime == 70
MaxOracleSeconds == 1
MaxDurationHours == 1
MaxWhitelistActions == 2
MaxHours == 4
MaxCleanerTime == 86520
MaxCleanerFailures == 1
MaxBlockActions == 2
MaxBlockTime == 125

VARIABLES
    \* ---- wallet (storage/database.py focus_wallet, wallet_transactions;
    \*      services/economy_service.py EconomyService)
    wallet_balance,        \* focus_wallet.current_balance
    wallet_transactions,   \* wallet_transactions rows appended in this run
    cached_balance,        \* EconomyService._cached_balance
    thr,                   \* per calling thread: position and locals of the running call
    calls,                 \* number of calls issued so far
    \* ---- clock
    now,                   \* time.time(), in seconds since the start
    \* ---- services/action_manager.py ActionManager
    snooze_timer,          \* _snooze_timer: Nil when inactive, else the second it fires
    temp_whitelist,        \* _temp_whitelist
    whitelist_requests,    \* per app: the expiry its latest WHITELIST_TEMP asked for
                           \* (logged by the handler, stored nowhere), or Nil
    strict_mode_until,     \* _strict_mode_until: Nil or a timestamp
    handled,               \* number of handle_action calls so far
    \* ---- main.py SupervisionEngine (its own thread)
    eng,                   \* position in run(), remaining wait, path of the tick,
                           \* seconds spent in the oracle call, and whether strict
                           \* mode was active when the tick began
    check_interval,        \* _check_interval
    \* ---- main.py FocusGuardApp, ui InterventionDialog, AuditService (GUI thread)
    dialog,                \* InterventionDialog: visible, buttons enabled
    gui_queue,             \* signals queued from other threads to the GUI thread
    audit_workers,         \* running AuditWorker threads
    gui_timers,            \* pending QTimer.singleShot callbacks of the GUI thread
    choices,               \* number of user choices so far
    \* ---- storage/cleaner.py DataMetabolismCleaner (its own thread)
    last_l1_to_l2_time,    \* _last_l1_to_l2_time: Nil or a timestamp
    last_l2_to_l3_time,    \* _last_l2_to_l3_time: Nil or a timestamp
    jobs_run,              \* how often each job has run (trim, compress, transform),
                           \* how many compress / transform runs have failed,
                           \* and how many iterations have failed
    \* ---- services/enforcement_service.py EnforcementService (GUI thread timers)
    blocked_apps,          \* _blocked_apps: app -> Nil, or the unblock timestamp, which
                           \* is also the second its unblock timer fires
    unblock_timers,        \* the pending single-shot unblock timers: the app each
                           \* unblocks and the second it fires
    blocking_monitor,      \* _blocking_monitor_timer: Nil, or the second it fires next
    running_apps,          \* processes the OS is running
    terminated,            \* when the latest step was block_app, a watchdog tick
                           \* or cleanup: which one, and the apps it terminated
    \* ---- services/llm_service.py LLMService.analyze_activity (engine thread)
    llm,                   \* one call of analyze_activity: its position, the attempt
                           \* index, the oracle's answers so far, the sleeps taken,
                           \* and what it returned or raised
    \* ---- services/action_manager.py ActionManager: memory (GUI thread)
    db_path,               \* _db_path: Nil until set_db_path is called
    episodic_events,       \* the episodic event log: event types, oldest first
    recently_closed_keywords, \* _recently_closed_keywords: keyword -> Nil or timestamp
    last_action,           \* the action type of the latest handle_action call
    last_tick,             \* the latest supervision tick taken as a whole: its
                           \* number, the activity it read, whether it dispatched
    \* ---- services/audit_service.py AuditService, storage/database.py
    audit_records,         \* rows of interaction_audits, oldest first
    \* ---- calls of functions that only compute
    audit_call,            \* the latest _determine_result call and its result
    price_call,            \* the latest calculate_price call and its result
    recovery_call,         \* the latest detect_recovery call and its result
    \* ---- storage/database.py activity_logs, session_blocks;
    \*      services/data_transformer.py DataTransformer
    activity_logs,         \* rows of activity_logs inside the trailing compression
                           \* window, oldest first
    session_blocks,        \* rows of session_blocks, oldest first
    compressions,          \* compress_logs_to_block calls so far, by whether the
                           \* window was empty
    density_call,          \* the latest _calculate_focus_density call and its result
    insights_call,         \* the latest generate_insights call and its result
    \* ---- main.py SupervisionEngine: the loop and its stop
    running,               \* _running
    stop_request,          \* Nil, or when stop() was called and where run() then was
    tick_starts,           \* the second each iteration of the loop began
    \* ---- services/action_manager.py ActionManager.handle_action
    action_raised,         \* the exception the latest handle_action call let
                           \* escape, or None
    \* ---- ui InterventionDialog
    chosen,                \* the option of the latest click, or Nil
    \* ---- services/enforcement_service.py EnforcementService: strict mode
    strict_mode_active,    \* _strict_mode_active
    strict_end_timers,     \* the seconds at which the pending single-shot end
                           \* timers of enable_strict_monitoring fire
    \* ---- services/action_manager.py ActionManager: snooze callbacks
    forced_callbacks,      \* how often _on_snooze_expired has run
    snooze_periods,        \* how often a SNOOZE was handled while not snoozed
    snooze_cancels,        \* how often cancel_snooze stopped an active timer
    \* ---- storage/database.py user_profile, key trust_score
    trust_score,           \* the committed value: what a new connection reads
    trust_call,            \* Nil, or the latest update_trust call of handle_action:
                           \* the score before it, its delta, the score it returned
    \* ---- main.py SupervisionEngine.run: the oracle's verdict
    response               \* Nil, or the LLMResponse of the latest tick

walletVars == <<wallet_balance, wallet_transactions, cached_balance>>
econVars == <<thr, calls>>
amVars == <<snooze_timer, temp_whitelist, whitelist_requests, strict_mode_until, handled>>
engVars == <<eng, check_interval>>
guiVars == <<dialog, gui_queue, audit_workers, gui_timers, choices>>
appVars == <<now, amVars, engVars, guiVars>>
clnVars == <<last_l1_to_l2_time, last_l2_to_l3_time, jobs_run>>
enfVars == <<blocked_apps, unblock_timers, blocking_monitor, running_apps, terminated>>

memVars == <<db_path, episodic_events, recently_closed_keywords, last_action, last_tick>>
callVars == <<audit_call, price_call, recovery_call>>
xfVars == <<activity_logs, session_blocks, compressions, density_call, insights_call>>
loopVars == <<running, stop_request, tick_starts>>
strictVars == <<strict_mode_active, strict_end_timers>>
snoozeVars == <<forced_callbacks, snooze_periods, snooze_cancels>>
trustVars == <<trust_score, trust_call>>
restVars == <<trustVars, response>>
moreVars == <<snoozeVars, restVars>>
lateVars == <<action_raised, chosen, strictVars, moreVars>>
extVars == <<llm, memVars, audit_records, callVars, xfVars, loopVars, lateVars>>

vars == <<walletVars, econVars, appVars, clnVars, enfVars, extVars>>

(***************************************************************************)
(* Program constants.                                                      *)
(***************************************************************************)
SupervisionCheckInterval == 30   \* config.supervision_check_interval, seconds
StrictCheckInterval == 10        \* SupervisionEngine.run in strict mode, seconds
SecondsPerMinute == 60
DefaultSnoozeMinutes == 5
DefaultStrictMinutes == 30
DefaultWhitelistHours == 1
SecondsPerHour == 60 * SecondsPerMinute
ScoreUnit == 100000              \* scores are counted in units of 0.00001
ApprovedThreshold == 70000       \* consistency_score >= 0.7
AdjustedThreshold == 40000       \* consistency_score >= 0.4
CleanerCheckInterval == 60       \* DataMetabolismCleaner._check_interval, seconds
L1ToL2Minutes == 30              \* _l1_to_l2_interval = timedelta(minutes=30)
L2ToL3Hours == 24                \* _l2_to_l3_interval = timedelta(hours=24)
WatchdogInterval == 5            \* _blocking_monitor_timer.start(5000)
DefaultScore == 50000            \* the score 0.5 used when the oracle gives none
AuditResultCloseDelay == 2       \* QTimer.singleShot(2000, dialog.close)
AuditRejectedCloseDelay == 3     \* QTimer.singleShot(3000, dialog.close)
RejectedHideDelay == 3           \* QTimer.singleShot(2500, dialog.hide): has fired
                                 \* when the third second ends

Apps == {"chrome.exe", "game.exe"}

(***************************************************************************)
(* Economy engine: EconomyService over the persisted wallet.               *)
(***************************************************************************)
\* The threads that call the one EconomyService: the GUI thread (dialog
\* callbacks, audit callbacks, _start_monitoring) and the SupervisionEngine
\* thread, which only reads the balance (main.py run, _show_intervention_dialog).
Threads == {"gui", "engine"}
Amounts == 1..MaxAmount
WalletOps == {"spend", "earn", "bonus", "penalty", "get_balance"}
CallerOps(t) == IF t = "engine" THEN {"get_balance"} ELSE WalletOps

\* transaction_type passed to update_wallet_balance by each operation
TxType(op) ==
    CASE op = "spend" -> "SPEND"
      [] op = "earn" -> "EARN"
      [] op = "bonus" -> "BONUS"
      [] op = "penalty" -> "PENALTY"

DeltaUnsigned(op, amount) == amount

\* delta passed to update_wallet_balance: earn/bonus add, spend/penalty subtract
Delta(op, amount) == IF op \in {"earn", "bonus"} THEN amount ELSE 0 - amount

\* UPDATE focus_wallet SET current_balance = current_balance + ? RETURNING current_balance
NewBalance(balance, delta) == balance + delta

\* a row whose balance_after is the balance before the UPDATE
TransactionBeforeUpdate(type, delta, new_balance) ==
    [type |-> type, amount |-> delta, balance_after |-> new_balance - delta]

\* the row INSERTed INTO wallet_transactions
Transaction(type, delta, new_balance) ==
    [type |-> type, amount |-> delta, balance_after |-> new_balance]

\* spend: `if current_balance < amount: return (False, ...)`
Insufficient(current_balance, amount) == current_balance < amount

IdleThread ==
    [pc |-> "idle", op |-> None, amount |-> 0,
     current_balance |-> Nil, new_balance |-> Nil, ok |-> FALSE]

WalletInit ==
    /\ wallet_balance \in 0..MaxInitialBalance
    /\ wallet_transactions = <<>>
    /\ cached_balance = Nil

\* the wallet row as init_database creates it
FreshWallet ==
    /\ wallet_balance = 0
    /\ wallet_transactions = <<>>
    /\ cached_balance = Nil

EconInit ==
    /\ thr = [t \in Threads |-> IdleThread]
    /\ calls = 0

\* ActionManager.__init__, SupervisionEngine.__init__, FocusGuardApp.__init__,
\* with the engine thread just started
AppInit ==
    /\ now = 0
    /\ snooze_timer = Nil
    /\ temp_whitelist = {}
    /\ whitelist_requests = [a \in Apps |-> Nil]
    /\ strict_mode_until = Nil
    /\ handled = 0
    /\ eng = [pc |-> "top", remaining |-> 0, path |-> None, elapsed |-> 0,
              strict_at_top |-> FALSE]
    /\ check_interval = SupervisionCheckInterval
    /\ dialog = [visible |-> FALSE, enabled |-> FALSE]
    /\ gui_queue = <<>>
    /\ audit_workers = <<>>
    /\ gui_timers = {}
    /\ choices = 0

\* DataMetabolismCleaner.__init__
ClnInit ==
    /\ last_l1_to_l2_time = Nil
    /\ last_l2_to_l3_time = Nil
    /\ jobs_run = [trim |-> 0, compress |-> 0, transform |-> 0, failed |-> 0,
                   job_failures |-> 0]

\* EnforcementService.__init__
EnfInit ==
    /\ blocked_apps = [a \in Apps |-> Nil]
    /\ unblock_timers = {}
    /\ blocking_monitor = Nil
    /\ running_apps = {}
    /\ terminated = [by |-> None, apps |-> {}]

\* analyze_activity has not been called yet
LlmInit ==
    llm = [pc |-> "idle", is_hunyuan |-> FALSE, attempt |-> 0, answers |-> <<>>,
           sleeps |-> <<>>, result |-> None, raised |-> None]

\* ActionManager.__init__, and no tick taken yet
MemInit ==
    /\ db_path = Nil
    /\ episodic_events = <<>>
    /\ recently_closed_keywords = [k \in {"bilibili", "youtube"} |-> Nil]
    /\ last_action = None
    /\ last_tick = [n |-> 0, activity |-> [app |-> "", title |-> ""],
                    dispatched |-> FALSE]

\* init_database: INSERT OR IGNORE ... VALUES ('trust_score', '80')
DefaultTrustScore == 80

ExtInit ==
    /\ LlmInit
    /\ MemInit
    /\ audit_records = <<>>
    /\ audit_call = Nil
    /\ price_call = Nil
    /\ recovery_call = Nil
    /\ activity_logs = <<>>
    /\ session_blocks = <<>>
    /\ compressions = [empty |-> 0, nonempty |-> 0]
    /\ density_call = Nil
    /\ insights_call = Nil
    /\ running = TRUE
    /\ stop_request = Nil
    /\ tick_starts = <<0>>
    /\ action_raised = None
    /\ chosen = Nil
    /\ strict_mode_active = FALSE
    /\ strict_end_timers = {}
    /\ forced_callbacks = 0
    /\ snooze_periods = 0
    /\ snooze_cancels = 0
    /\ trust_score = DefaultTrustScore
    /\ trust_call = Nil
    /\ response = Nil

\* A thread enters spend / earn / award_bonus / apply_penalty / get_balance.
Call(t, op, amount) ==
    /\ thr[t].pc = "idle"
    /\ calls < MaxCalls
    /\ calls' = calls + 1
    /\ thr' = [thr EXCEPT ![t] =
                [IdleThread EXCEPT
                    !.pc = IF op \in {"spend", "get_balance"} THEN "get_balance" ELSE "update",
                    !.op = op,
                    !.amount = IF op = "get_balance" THEN 0 ELSE amount]]
    /\ UNCHANGED <<walletVars, appVars, clnVars, enfVars, extVars>>

\* get_balance with a cached value: `return self._cached_balance`
GetBalanceCached(t) ==
    /\ thr[t].pc = "get_balance"
    /\ cached_balance # Nil
    /\ thr' = [thr EXCEPT ![t].current_balance = cached_balance,
                          ![t].pc = IF thr[t].op = "spend" THEN "check" ELSE "done",
                          ![t].ok = (thr[t].op # "spend")]
    /\ UNCHANGED <<walletVars, calls, appVars, clnVars, enfVars, extVars>>

\* get_balance without a cached value: `balance = get_wallet_balance(conn)`
GetBalanceRead(t) ==
    /\ thr[t].pc = "get_balance"
    /\ cached_balance = Nil
    /\ thr' = [thr EXCEPT ![t].current_balance = Some(wallet_balance),
                          ![t].pc = "store_cache"]
    /\ UNCHANGED <<walletVars, calls, appVars, clnVars, enfVars, extVars>>

\* get_balance: `self._cached_balance = balance; return balance`
GetBalanceStore(t) ==
    /\ thr[t].pc = "store_cache"
    /\ cached_balance' = thr[t].current_balance
    /\ thr' = [thr EXCEPT ![t].pc = IF thr[t].op = "spend" THEN "check" ELSE "done",
                          ![t].ok = (thr[t].op # "spend")]
    /\ UNCHANGED <<wallet_balance, wallet_transactions, calls, appVars, clnVars, enfVars, extVars>>

\* spend: the sufficiency check on the value get_balance returned
SpendCheck(t) ==
    /\ thr[t].pc = "check"
    /\ thr' = [thr EXCEPT ![t].pc =
                  IF Insufficient(Val(thr[t].current_balance), thr[t].amount)
                  THEN "done" ELSE "update"]
    /\ UNCHANGED <<walletVars, calls, appVars, clnVars, enfVars, extVars>>

\* update_wallet_balance, under _db_lock: UPDATE ... RETURNING, INSERT, commit
UpdateWalletBalance(t) ==
    /\ thr[t].pc = "update"
    /\ LET delta == Delta(thr[t].op, thr[t].amount)
           nb == NewBalance(wallet_balance, delta)
       IN /\ wallet_balance' = nb
          /\ wallet_transactions' =
                Append(wallet_transactions, Transaction(TxType(thr[t].op), delta, nb))
          /\ thr' = [thr EXCEPT ![t].new_balance = Some(nb), ![t].pc = "set_cache"]
    /\ UNCHANGED <<cached_balance, calls, appVars, clnVars, enfVars, extVars>>

\* after the update: `self._cached_balance = new_balance`, signals, return
SetCache(t) ==
    /\ thr[t].pc = "set_cache"
    /\ cached_balance' = thr[t].new_balance
    /\ thr' = [thr EXCEPT ![t].pc = "done", ![t].ok = TRUE]
    /\ UNCHANGED <<wallet_balance, wallet_transactions, calls, appVars, clnVars, enfVars, extVars>>

\* the caller takes the result
Return(t) ==
    /\ thr[t].pc = "done"
    /\ thr' = [thr EXCEPT ![t] = IdleThread]
    /\ UNCHANGED <<walletVars, calls, appVars, clnVars, enfVars, extVars>>

EconNext ==
    \/ \E t \in Threads : \E op \in CallerOps(t), a \in Amounts : Call(t, op, a)
    \/ \E t \in Threads : GetBalanceCached(t)
    \/ \E t \in Threads : GetBalanceRead(t)
    \/ \E t \in Threads : GetBalanceStore(t)
    \/ \E t \in Threads : SpendCheck(t)
    \/ \E t \in Threads : UpdateWalletBalance(t)
    \/ \E t \in Threads : SetCache(t)
    \/ \E t \in Threads : Return(t)

EconomyInit == WalletInit /\ EconInit /\ AppInit /\ ClnInit /\ EnfInit /\ ExtInit

SpecEconomy == EconomyInit /\ [][EconNext]_vars

(***************************************************************************)
(* Claims on the economy engine.                                           *)
(***************************************************************************)

\* C1: every step of a running spend(amount) either leaves the persisted
\* balance and the ledger alone, or is its single deduction: the balance
\* drops by exactly amount and exactly one SPEND transaction is appended.
\* A spend that returns failure has made no deduction, a spend that returns
\* success has made exactly one.
C1_SpendAllOrNothing ==
    [][\A t \in Threads :
          (thr[t].op = "spend" /\ thr'[t] # thr[t]) =>
             /\ (wallet_balance' # wallet_balance
                   \/ wallet_transactions' # wallet_transactions) =>
                    /\ wallet_balance' = wallet_balance - thr[t].amount
                    /\ wallet_transactions' =
                          Append(wallet_transactions,
                                 Transaction("SPEND", 0 - thr[t].amount, wallet_balance'))
                    /\ thr[t].new_balance = Nil
                    /\ thr'[t].new_balance = Some(wallet_balance')
             /\ (thr'[t].pc = "done" /\ ~thr'[t].ok) =>
                    /\ thr[t].new_balance = Nil
                    /\ UNCHANGED <<wallet_balance, wallet_transactions>>
             /\ (thr'[t].pc = "done" /\ thr'[t].ok) => thr[t].new_balance # Nil
      ]_vars

C1_Witness ==
    /\ thr["gui"].op = "spend" /\ thr["gui"].pc = "done" /\ thr["gui"].ok
    /\ Len(wallet_transactions) = 2
    /\ wallet_transactions[1].type = "SPEND"

\* C2: a spend never succeeds when the balance at the moment of its
\* deduction is smaller than its amount: no SPEND transaction leaves the
\* balance below zero.
C2_SpendNeverOverdraws ==
    \A i \in DOMAIN wallet_transactions :
        wallet_transactions[i].type = "SPEND" =>
            wallet_transactions[i].balance_after >= 0

\* C22: the balance and the ledger change only in the update step of a
\* running earn, spend, penalty or bonus, and every such step appends
\* exactly one Transaction whose amount is the signed amount of the
\* operation and whose balance_after is the previous balance plus that
\* amount, which is the balance right after the step - whatever the other
\* thread is doing.
C22_BalanceChangesOnlyByTransactions ==
    [][LET n == Len(wallet_transactions)
           updating == {t \in Threads : thr[t].pc = "update" /\ thr'[t].pc # "update"}
       IN  /\ (wallet_balance' # wallet_balance
                  \/ wallet_transactions' # wallet_transactions) => updating # {}
           /\ \A t \in updating :
                /\ thr[t].op \in {"earn", "spend", "penalty", "bonus"}
                /\ Len(wallet_transactions') = n + 1
                /\ SubSeq(wallet_transactions', 1, n) = wallet_transactions
                /\ wallet_transactions'[n + 1].type = TxType(thr[t].op)
                /\ wallet_transactions'[n + 1].amount =
                        (IF thr[t].op \in {"earn", "bonus"}
                         THEN thr[t].amount ELSE 0 - thr[t].amount)
                /\ wallet_transactions'[n + 1].balance_after =
                        wallet_balance + wallet_transactions'[n + 1].amount
                /\ wallet_transactions'[n + 1].balance_after = wallet_balance'
      ]_vars

\* two operations have updated the wallet while the engine thread is
\* inside get_balance
C22_Witness ==
    /\ Len(wallet_transactions) = 2
    /\ wallet_transactions[1].type = "PENALTY"
    /\ wallet_transactions[2].type = "BONUS"
    /\ wallet_transactions[2].balance_after = wallet_balance
    /\ thr["engine"].pc = "store_cache"

\* C34: after any sequence and interleaving of earn, spend, award_bonus and
\* apply_penalty calls through the one EconomyService, once all calls have
\* returned, the balance get_balance() reports (the cached balance) equals
\* the persisted wallet balance.
C34_CacheEqualsPersistedBalance ==
    ((\A t \in Threads : thr[t].pc = "idle") /\ cached_balance # Nil)
        => Val(cached_balance) = wallet_balance

(***************************************************************************)
(* Action manager: ActionManager (lives on the GUI thread).                *)
(***************************************************************************)
ActionTypes == {"DISMISS", "SNOOZE", "WHITELIST_TEMP", "STRICT_MODE"}
Costs == (0 - MaxReward)..MaxAmount
Durations == {Nil} \cup {Some(d) : d \in 1..MaxDurationMinutes}
HourDurations == {Nil} \cup {Some(h) : h \in 1..MaxDurationHours}

\* The payload keys the handlers read; Nil is a missing key, "" a missing app.
EmptyPayload == [app |-> "", duration_minutes |-> Nil, duration_hours |-> Nil]

\* `payload.get("duration_minutes") or payload.get("duration", default)`
DurationMinutes(payload, default) ==
    IF payload.duration_minutes # Nil /\ Val(payload.duration_minutes) # 0
    THEN Val(payload.duration_minutes)
    ELSE default

\* is_snoozed: the timer exists and is active
IsSnoozed == snooze_timer # Nil

\* is_whitelisted
IsWhitelisted(app_name) == app_name \in temp_whitelist

\* is_in_strict_mode: the value returned
IsInStrictMode == strict_mode_until # Nil /\ ~(now > Val(strict_mode_until))

\* is_in_strict_mode: an expired deadline is reset to None by the check
StrictModeAfterCheck ==
    IF strict_mode_until # Nil /\ now > Val(strict_mode_until)
    THEN Nil
    ELSE strict_mode_until

\* _handle_snooze: (re)start the single-shot timer
HandleSnooze(payload) ==
    /\ snooze_timer' =
         Some(now + DurationMinutes(payload, DefaultSnoozeMinutes) * SecondsPerMinute)
    /\ UNCHANGED <<temp_whitelist, whitelist_requests, strict_mode_until>>

\* _handle_whitelist_temp: `payload.get("duration_hours", 1)`
DurationHours(payload) ==
    IF payload.duration_hours # Nil
    THEN Val(payload.duration_hours)
    ELSE DefaultWhitelistHours

\* _handle_whitelist_temp: the whitelist after the action
WhitelistAfter(payload) ==
    IF payload.app # "" THEN temp_whitelist \cup {payload.app} ELSE temp_whitelist

HandleWhitelistTemp(payload) ==
    /\ temp_whitelist' = WhitelistAfter(payload)
    /\ whitelist_requests' =
         IF payload.app # ""
         THEN [whitelist_requests EXCEPT
                 ![payload.app] = Some(now + DurationHours(payload) * SecondsPerHour)]
         ELSE whitelist_requests
    /\ UNCHANGED <<snooze_timer, strict_mode_until>>

\* _handle_strict_mode
HandleStrictMode(payload) ==
    /\ strict_mode_until' =
         Some(now + DurationMinutes(payload, DefaultStrictMinutes) * SecondsPerMinute)
    /\ UNCHANGED <<snooze_timer, temp_whitelist, whitelist_requests>>

\* handle_action: dispatch on the action type
HandleAction(action_type, payload) ==
    /\ handled' = handled + 1
    /\ CASE action_type = "SNOOZE" -> HandleSnooze(payload)
         [] action_type = "WHITELIST_TEMP" -> HandleWhitelistTemp(payload)
         [] action_type = "STRICT_MODE" -> HandleStrictMode(payload)
         [] OTHER -> UNCHANGED <<snooze_timer, temp_whitelist, whitelist_requests,
                                 strict_mode_until>>

\* Receivers connected to ActionManager.intervention_requested by
\* FocusGuardApp.__init__: none (only EnforcementService.intervention_requested
\* is connected to a slot that shows the dialog).
InterventionRequestedReceivers == {}

ShownDialog == [visible |-> TRUE, enabled |-> TRUE]

\* a timer without setSingleShot(True): it stays active and fires again
\* after the same interval
SnoozeTimerRepeats == Some(now + SecondsPerMinute)

\* `self._snooze_timer.setSingleShot(True)`: after its timeout the timer is
\* inactive
SnoozeTimerAfterTimeout == Nil

\* _on_snooze_expired: the single-shot timer fires; snooze_expired reaches
\* SupervisionEngine._on_snooze_expired, which only logs; the forced
\* response (is_distracted, confidence 100) goes to the receivers of
\* intervention_requested.
SnoozeExpired ==
    /\ snooze_timer # Nil
    /\ Val(snooze_timer) <= now
    /\ snooze_timer' = SnoozeTimerAfterTimeout
    /\ forced_callbacks' = forced_callbacks + 1
    /\ dialog' = IF "show_with_options" \in InterventionRequestedReceivers
                 THEN ShownDialog
                 ELSE dialog
    /\ UNCHANGED <<walletVars, econVars, now, temp_whitelist, whitelist_requests,
                   strict_mode_until,
                   handled, engVars, gui_queue, audit_workers, gui_timers,
                   choices, clnVars, enfVars, llm, memVars, audit_records, callVars,
                   xfVars, loopVars, action_raised, chosen, strictVars,
                   snooze_periods, snooze_cancels, restVars>>

(***************************************************************************)
(* Wallet operations as the GUI and engine threads of the running app call  *)
(* them, each taken as one step.                                           *)
(***************************************************************************)
\* get_balance: the value returned
GetBalance == IF cached_balance # Nil THEN Val(cached_balance) ELSE wallet_balance

\* get_balance: fills the cache
ReadBalance ==
    /\ cached_balance' = Some(GetBalance)
    /\ UNCHANGED <<wallet_balance, wallet_transactions>>

\* update_wallet_balance followed by the cache update
ApplyDelta(op, amount) ==
    LET new_balance == NewBalance(wallet_balance, Delta(op, amount)) IN
    /\ wallet_balance' = new_balance
    /\ wallet_transactions' =
         Append(wallet_transactions,
                Transaction(TxType(op), Delta(op, amount), new_balance))
    /\ cached_balance' = Some(new_balance)

\* spend
Spend(amount) ==
    IF Insufficient(GetBalance, amount) THEN ReadBalance ELSE ApplyDelta("spend", amount)

\* earn
Earn(amount) == ApplyDelta("earn", amount)

(***************************************************************************)
(* Supervision loop: SupervisionEngine.run, one iteration split at the     *)
(* points where it reads state the GUI thread writes.                      *)
(***************************************************************************)
\* What the activity log holds at a tick: nothing, only older entries
\* (short_trend without instant_log), or a latest app.
Activities == {"none", "trend_only"} \cup Apps
\* analyze_activity: None after its retries, or a verdict
Verdicts == {"none", "focused", "low_confidence", "distracted"}

ShowDialogRequested ==
    [kind |-> "show_dialog_requested", action_type |-> None, result |-> None,
     original_cost |-> 0, final_cost |-> 0, reason |-> None]

\* _wait_next_check entered: remaining = self._check_interval
Waiting(path, interval) ==
    [pc |-> "wait", remaining |-> interval, path |-> path, elapsed |-> 0,
     strict_at_top |-> eng.strict_at_top]

\* top of the while loop: `if self._action_manager.is_snoozed()`
EngineSnoozeCheck ==
    /\ eng.pc = "top"
    /\ eng' = IF IsSnoozed
              THEN [Waiting("snoozed", check_interval)
                      EXCEPT !.strict_at_top = IsInStrictMode]
              ELSE [eng EXCEPT !.pc = "read", !.strict_at_top = IsInStrictMode]
    /\ UNCHANGED <<walletVars, econVars, now, amVars, check_interval, guiVars,
                   clnVars, enfVars, extVars>>

\* steps 1 and 2 up to the whitelist check
EngineReadActivity(activity) ==
    /\ eng.pc = "read"
    /\ eng' = CASE activity = "none" -> Waiting("no_activity", check_interval)
                [] activity \in Apps /\ IsWhitelisted(activity) ->
                       Waiting("whitelisted", check_interval)
                [] OTHER -> [eng EXCEPT !.pc = "strict"]
    /\ UNCHANGED <<walletVars, econVars, now, amVars, check_interval, guiVars,
                   clnVars, enfVars, extVars>>

\* `if is_in_strict_mode(): _check_interval = 10 else: config...`
IntervalAfterStrictCheck ==
    IF IsInStrictMode THEN StrictCheckInterval ELSE SupervisionCheckInterval

\* the strict-mode check, get_balance, and the start of analyze_activity
EngineStrictCheck ==
    /\ eng.pc = "strict"
    /\ check_interval' = IntervalAfterStrictCheck
    /\ strict_mode_until' = StrictModeAfterCheck
    /\ ReadBalance
    /\ eng' = [eng EXCEPT !.pc = "oracle"]
    /\ UNCHANGED <<econVars, now, snooze_timer, temp_whitelist, whitelist_requests,
                   handled, guiVars,
                   clnVars, enfVars, extVars>>

\* the intervention is dispatched whatever the oracle call gave
DispatchesAlways(verdict) == TRUE

\* `if response is None: ... continue`, then step 4: is_distracted with
\* confidence >= 60.  "none" stands for analyze_activity returning None
\* after its retries, or raising into the except clause of the tick.
DispatchesIntervention(verdict) == verdict = "distracted"

\* analyze_activity returns; step 4; _show_intervention_dialog emits
\* show_dialog_requested, which is queued to the GUI thread
EngineOracleReturn(verdict) ==
    /\ eng.pc = "oracle"
    /\ eng' = Waiting(IF verdict = "none" THEN "no_verdict" ELSE "full",
                      check_interval)
    /\ IF DispatchesIntervention(verdict)
       THEN /\ ReadBalance
            /\ gui_queue' = Append(gui_queue, ShowDialogRequested)
       ELSE UNCHANGED <<walletVars, gui_queue>>
    /\ UNCHANGED <<econVars, now, amVars, check_interval, dialog, audit_workers,
                   gui_timers, choices, clnVars, enfVars, extVars>>

\* Where a tick can raise before the oracle call: in the snooze check at
\* the top of the loop, which stands before the try, or in the data reads
\* of step 1, which stand inside it.
RaisePoints == {"top", "read"}

\* A call of the tick raises.  Inside the try, `except Exception` logs it
\* and the tick ends with _wait_next_check; before the try the exception
\* leaves run() and the thread is over.  (An exception out of
\* analyze_activity is the verdict "none" of EngineOracleReturn.)
EngineRaise(point) ==
    /\ eng.pc = point
    /\ eng' = IF point = "top"
              THEN [eng EXCEPT !.pc = "ended"]
              ELSE Waiting("exception", check_interval)
    /\ UNCHANGED <<walletVars, econVars, now, amVars, check_interval, guiVars,
                   clnVars, enfVars, extVars>>

\* _wait_next_check returns once remaining has reached 0
EngineWake ==
    /\ eng.pc = "wait"
    /\ eng.remaining = 0
    /\ eng' = [eng EXCEPT !.pc = "top", !.path = None]
    /\ UNCHANGED <<walletVars, econVars, now, amVars, check_interval, guiVars,
                   clnVars, enfVars, extVars>>

\* A timer of the GUI thread is due
TimersDue ==
    \/ snooze_timer # Nil /\ Val(snooze_timer) <= now
    \/ \E t \in gui_timers : t <= now

\* One second passes: time.sleep(1) in _wait_next_check, or a second of
\* the oracle call.  Queued signals and due timers are handled first.
Tick ==
    /\ now < MaxTime
    /\ ~TimersDue
    /\ gui_queue = <<>>
    /\ \/ eng.pc = "oracle" /\ eng.elapsed < MaxOracleSeconds
       \/ eng.pc = "wait" /\ eng.remaining > 0
    /\ now' = now + 1
    /\ eng' = IF eng.pc = "wait"
              THEN [eng EXCEPT !.remaining = eng.remaining - 1]
              ELSE [eng EXCEPT !.elapsed = eng.elapsed + 1]
    /\ UNCHANGED <<walletVars, econVars, amVars, check_interval, guiVars,
                   clnVars, enfVars, extVars>>

(***************************************************************************)
(* Interaction audit: AuditWorker (one thread per audit) and AuditService. *)
(***************************************************************************)
\* What the oracle call of an audit does: the prompt cannot be built, the
\* call raises, its output is not JSON, the JSON has no consistency_score,
\* or it has one (in units of 0.00001).
ScoreSamples == {0, AdjustedThreshold - 1, AdjustedThreshold,
                 ApprovedThreshold - 1, ApprovedThreshold, ScoreUnit}
AuditOutcomes ==
    {[kind |-> k, score |-> 0] : k \in {"prompt_error", "raise", "unparseable", "no_score"}}
    \cup {[kind |-> "score", score |-> sc] : sc \in ScoreSamples}

\* _call_llm_for_audit: the score returned; every exception inside it is
\* caught and answered with 0.5
ConsistencyScore(outcome) ==
    IF outcome.kind = "score" THEN outcome.score ELSE DefaultScore

\* _call_llm_for_audit: the explanation returned
AuditReason(outcome) ==
    IF outcome.kind \in {"raise", "unparseable"} THEN "audit failed" ELSE "oracle"

\* int(self._original_cost * 1.5)
AdjustedCost(original_cost) == (3 * original_cost) \div 2

\* _determine_result with the bands open at their lower ends
DetermineResultOpenBands(consistency_score, original_cost) ==
    IF consistency_score > ApprovedThreshold
    THEN [result |-> "APPROVED", final_cost |-> original_cost]
    ELSE IF consistency_score > AdjustedThreshold
    THEN [result |-> "PRICE_ADJUSTED", final_cost |-> AdjustedCost(original_cost)]
    ELSE [result |-> "REJECTED", final_cost |-> original_cost]

\* _determine_result
DetermineResult(consistency_score, original_cost) ==
    IF consistency_score >= ApprovedThreshold
    THEN [result |-> "APPROVED", final_cost |-> original_cost]
    ELSE IF consistency_score >= AdjustedThreshold
    THEN [result |-> "PRICE_ADJUSTED", final_cost |-> AdjustedCost(original_cost)]
    ELSE [result |-> "REJECTED", final_cost |-> original_cost]

\* AuditWorker.run: the audit_completed signal it emits
AuditCompleted(worker, outcome) ==
    IF outcome.kind = "prompt_error"
    THEN [kind |-> "audit_completed", action_type |-> worker.action_type,
          result |-> "APPROVED", original_cost |-> worker.original_cost,
          final_cost |-> worker.original_cost,
          reason |-> "audit failed, auto-approved"]
    ELSE LET d == DetermineResult(ConsistencyScore(outcome), worker.original_cost) IN
         [kind |-> "audit_completed", action_type |-> worker.action_type,
          result |-> d.result, original_cost |-> worker.original_cost,
          final_cost |-> d.final_cost, reason |-> AuditReason(outcome)]

RemoveAt(seq, i) == SubSeq(seq, 1, i - 1) \o SubSeq(seq, i + 1, Len(seq))

\* AuditWorker.run on its own thread; the signal is queued to the GUI thread
AuditWorkerRun(i, outcome) ==
    /\ i \in DOMAIN audit_workers
    /\ gui_queue' = Append(gui_queue, AuditCompleted(audit_workers[i], outcome))
    /\ audit_workers' = RemoveAt(audit_workers, i)
    /\ UNCHANGED <<walletVars, econVars, now, amVars, engVars, dialog, gui_timers,
                   choices, clnVars, enfVars, extVars>>

(***************************************************************************)
(* Application wiring: FocusGuardApp and InterventionDialog (GUI thread).   *)
(***************************************************************************)
\* The options a dialog can offer: the oracle chooses action type, cost and
\* payload.  Keys a handler does not read are left out.
Options ==
    {o \in [action_type : ActionTypes, cost : Costs,
            app : Apps \cup {""}, duration_minutes : Durations,
            duration_hours : HourDurations] :
        /\ o.action_type # "WHITELIST_TEMP" => (o.app = "" /\ o.duration_hours = Nil)
        /\ o.action_type \notin {"SNOOZE", "STRICT_MODE"} => o.duration_minutes = Nil}

Payload(option) ==
    [app |-> option.app, duration_minutes |-> option.duration_minutes,
     duration_hours |-> option.duration_hours]

HiddenDialog == [visible |-> FALSE, enabled |-> FALSE]

\* _process_action with `if cost >= 0:` in place of `if cost > 0:`
ProcessActionSpendsZero(action_type, payload, cost) ==
    /\ IF cost >= 0 THEN Spend(cost) ELSE Earn(0 - cost)
    /\ HandleAction(action_type, payload)

\* _process_action: pay (the action runs even when the payment fails), or
\* collect the reward, then handle_action
ProcessAction(action_type, payload, cost) ==
    /\ IF cost > 0 THEN Spend(cost)
       ELSE IF cost < 0 THEN Earn(0 - cost)
       ELSE UNCHANGED walletVars
    /\ HandleAction(action_type, payload)

\* _on_user_action_chosen: `cost > 0 and action_type in ["SNOOZE", "WHITELIST_TEMP"]`
NeedsAudit(action_type, cost) ==
    cost > 0 /\ action_type \in {"SNOOZE", "WHITELIST_TEMP"}

\* _on_show_dialog_requested -> show_with_options: buttons are rebuilt
\* enabled and the dialog is shown
OnShowDialogRequested ==
    /\ gui_queue # <<>>
    /\ Head(gui_queue).kind = "show_dialog_requested"
    /\ gui_queue' = Tail(gui_queue)
    /\ dialog' = ShownDialog
    /\ UNCHANGED <<walletVars, econVars, now, amVars, engVars, audit_workers,
                   gui_timers, choices, clnVars, enfVars, extVars>>

\* The user clicks an option: _on_option_clicked -> _on_user_action_chosen
UserChoose(option) ==
    /\ dialog.visible
    /\ dialog.enabled
    /\ choices < MaxChoices
    /\ choices' = choices + 1
    /\ chosen' = Some(option)
    /\ IF NeedsAudit(option.action_type, option.cost)
       THEN /\ dialog' = [dialog EXCEPT !.enabled = FALSE]
            /\ audit_workers' =
                 Append(audit_workers,
                        [action_type |-> option.action_type,
                         original_cost |-> option.cost])
            /\ UNCHANGED <<walletVars, amVars>>
       ELSE /\ ProcessAction(option.action_type, Payload(option), option.cost)
            /\ dialog' = HiddenDialog
            /\ UNCHANGED audit_workers
    /\ UNCHANGED <<econVars, now, engVars, gui_queue, gui_timers, clnVars, enfVars,
                   llm, memVars, audit_records, callVars, xfVars, loopVars,
                   action_raised, strictVars, moreVars>>

RecordedScore == 50000           \* record_audit(consistency_score=0.5)

\* the lambda connected in audit_user_choice records only approvals
RecordsOnlyApproved(audit_result) == audit_result = "APPROVED"

\* the lambda connected in audit_user_choice: _record_audit_in_db is called
\* for every audit_completed signal, whatever the result
RecordsAudit(audit_result) == TRUE

\* _record_audit_in_db -> record_audit: the row inserted
AuditRecord(m) ==
    [action_type |-> m.action_type, result |-> m.result,
     consistency_score |-> RecordedScore, reason |-> m.reason,
     original_cost |-> m.original_cost, final_cost |-> m.final_cost]

AuditNeverBlocks(audit_result) == FALSE

\* _process_action_after_audit: `if audit_result == "REJECTED": ... return`
AuditBlocksAction(audit_result) == audit_result = "REJECTED"

\* The queued audit_completed signal is delivered: AuditService's
\* _on_audit_completed (forwarding to FocusGuardApp._on_audit_completed and,
\* when rejected, _on_audit_rejected), then the lambda: _record_audit_in_db
\* and the callback _process_action_after_audit.
OnAuditCompleted ==
    /\ gui_queue # <<>>
    /\ Head(gui_queue).kind = "audit_completed"
    /\ LET m == Head(gui_queue)
           close == IF dialog.visible THEN {now + AuditResultCloseDelay} ELSE {}
           rejected == IF m.result = "REJECTED" /\ dialog.visible
                       THEN {now + AuditRejectedCloseDelay}
                       ELSE {}
       IN  /\ gui_queue' = Tail(gui_queue)
           /\ audit_records' = IF RecordsAudit(m.result)
                               THEN Append(audit_records, AuditRecord(m))
                               ELSE audit_records
           /\ IF AuditBlocksAction(m.result)
              THEN /\ gui_timers' = gui_timers \cup close \cup rejected
                                      \cup {now + RejectedHideDelay}
                   /\ UNCHANGED <<walletVars, amVars, dialog>>
              ELSE /\ gui_timers' = gui_timers \cup close \cup rejected
                   /\ ProcessAction(m.action_type, EmptyPayload, m.final_cost)
                   /\ dialog' = HiddenDialog
    /\ UNCHANGED <<econVars, now, engVars, audit_workers, choices, clnVars, enfVars,
                   llm, memVars, callVars, xfVars, loopVars, lateVars>>

\* A pending QTimer.singleShot(…, dialog.close / dialog.hide) fires
DialogTimerFire(t) ==
    /\ t \in gui_timers
    /\ t <= now
    /\ gui_timers' = gui_timers \ {t}
    /\ dialog' = HiddenDialog
    /\ UNCHANGED <<walletVars, econVars, now, amVars, engVars, gui_queue,
                   audit_workers, choices, clnVars, enfVars, extVars>>

AppNext ==
    \/ EngineSnoozeCheck
    \/ \E activity \in Activities : EngineReadActivity(activity)
    \/ EngineStrictCheck
    \/ \E verdict \in Verdicts : EngineOracleReturn(verdict)
    \/ EngineWake
    \/ \E point \in RaisePoints : EngineRaise(point)
    \/ Tick
    \/ OnShowDialogRequested
    \/ \E option \in Options : UserChoose(option)
    \/ \E i \in 1..MaxChoices, outcome \in AuditOutcomes : AuditWorkerRun(i, outcome)
    \/ OnAuditCompleted
    \/ \E t \in 0..(MaxTime + RejectedHideDelay) : DialogTimerFire(t)
    \/ SnoozeExpired

\* The application started with a wallet and the engine thread running
AppSpecInit == WalletInit /\ EconInit /\ AppInit /\ ClnInit /\ EnfInit /\ ExtInit

SpecApp == AppSpecInit /\ [][AppNext]_vars

\* C3: an audit whose oracle call raised or returned unparseable output
\* (its explanation records the failure) completes APPROVED with the final
\* cost equal to the original cost.
C3_AuditFailsOpen ==
    \A i \in DOMAIN gui_queue :
        (gui_queue[i].kind = "audit_completed" /\ gui_queue[i].reason = "audit failed")
            => /\ gui_queue[i].result = "APPROVED"
               /\ gui_queue[i].final_cost = gui_queue[i].original_cost

\* C4: neither the step that starts an audit for the user's choice nor the
\* step that delivers a REJECTED result spends, earns, calls handle_action or
\* changes the snooze, whitelist or strict-mode state.
C4_RejectedActionNotExecuted ==
    [][((/\ gui_queue # <<>>
         /\ Head(gui_queue).kind = "audit_completed"
         /\ Head(gui_queue).result = "REJECTED"
         /\ gui_queue' = Tail(gui_queue))
        \/ Len(audit_workers') > Len(audit_workers))
       => UNCHANGED <<walletVars, amVars>>]_vars

\* a REJECTED result has been delivered for the user's only choice: its
\* hide timer is pending and nothing was executed
C4_Witness ==
    /\ choices = 1
    /\ audit_workers = <<>>
    /\ gui_queue = <<>>
    /\ (now + RejectedHideDelay) \in gui_timers
    /\ handled = 0
    /\ wallet_transactions = <<>>

\* C5: the supervision loop starts an oracle query or requests an
\* intervention dialog only when no snooze deadline is pending.
C5_NoCheckWhileSnoozed ==
    [][(\/ eng.pc # "oracle" /\ eng'.pc = "oracle"
        \/ /\ Len(gui_queue') > Len(gui_queue)
           /\ gui_queue'[Len(gui_queue')].kind = "show_dialog_requested")
       => ~(snooze_timer # Nil /\ now < Val(snooze_timer))]_vars

\* C6: when a snooze runs out, the forced intervention is delivered: the
\* dialog is shown with its options or a request to show it is queued, and
\* the orchestrator is no longer snoozed.
C6_ForcedInterventionOnExpiry ==
    [][(snooze_timer # Nil /\ snooze_timer' = Nil)
       => \/ dialog' = ShownDialog
          \/ \E i \in DOMAIN gui_queue' :
                gui_queue'[i].kind = "show_dialog_requested"]_vars

\* C21: a step in which the user chooses an option whose price is exactly 0
\* leaves the balance, the transaction list and the balance cache as they
\* were (neither spend nor earn ran) and still calls handle_action.
C21_ZeroPriceBypassesWallet ==
    [][(/\ choices' = choices + 1
        /\ \E option \in Options : option.cost = 0 /\ UserChoose(option))
        => /\ UNCHANGED walletVars
           /\ handled' = handled + 1]_vars

\* a free option was chosen and executed with a balance that would have
\* covered any price: no wallet call was made
C21_Witness ==
    /\ choices = 1
    /\ handled = 1
    /\ wallet_balance = MaxAmount
    /\ wallet_transactions = <<>>
    /\ audit_records = <<>>

\* C12: the step in which the oracle call of a tick ends without a verdict
\* queues no intervention request, leaves the dialog, the wallet and the
\* snooze, whitelist and strict-mode state as they were, and starts the
\* normal wait of _check_interval seconds.
C12_FailedOracleSkipsTick ==
    [][(eng.pc = "oracle" /\ eng'.pc = "wait" /\ eng'.path = "no_verdict")
       => /\ UNCHANGED <<walletVars, amVars, gui_queue, dialog, check_interval>>
          /\ eng'.remaining = check_interval]_vars

\* the engine waits for the next tick after an oracle call without a verdict
C12_Witness ==
    /\ eng.pc = "wait"
    /\ eng.path = "no_verdict"
    /\ eng.remaining = check_interval
    /\ gui_queue = <<>>

\* C13: an exception raised inside a tick of the supervision loop, the
\* snooze check and the data reads included, never ends the loop: with no
\* stop requested, run() is not left.
C13_ExceptionNeverEndsLoop ==
    eng.pc # "ended"

\* C10: a tick that began and ends in strict mode waits 10 s, and a tick
\* that began and ends outside strict mode waits the configured interval,
\* whichever path the tick took.
C10_IntervalFollowsStrictMode ==
    [][(eng.pc # "wait" /\ eng'.pc = "wait")
       => /\ (eng'.strict_at_top /\ IsInStrictMode)
                => eng'.remaining = StrictCheckInterval
          /\ (~eng'.strict_at_top /\ ~IsInStrictMode)
                => eng'.remaining = SupervisionCheckInterval]_vars

(***************************************************************************)
(* Temporary whitelist over hours: ActionManager driven directly.          *)
(***************************************************************************)
\* handle_action("WHITELIST_TEMP", {"app": ..., "duration_hours": ...})
WhitelistTemp(app, hours) ==
    /\ handled < MaxWhitelistActions
    /\ HandleAction("WHITELIST_TEMP",
                    [app |-> app, duration_minutes |-> Nil, duration_hours |-> hours])
    /\ UNCHANGED <<walletVars, econVars, now, engVars, guiVars, clnVars, enfVars, extVars>>

\* An hour passes; no timer of the action manager is running
HourPasses ==
    /\ now < MaxHours * SecondsPerHour
    /\ now' = now + SecondsPerHour
    /\ UNCHANGED <<walletVars, econVars, amVars, engVars, guiVars, clnVars, enfVars, extVars>>

WhitelistNext ==
    \/ \E app \in Apps \cup {""}, hours \in HourDurations : WhitelistTemp(app, hours)
    \/ HourPasses

WhitelistInit == FreshWallet /\ EconInit /\ AppInit /\ ClnInit /\ EnfInit /\ ExtInit

SpecWhitelist == WhitelistInit /\ [][WhitelistNext]_vars

\* C8: an app whose latest WHITELIST_TEMP asked for h hours is whitelisted
\* before those h hours have elapsed and not whitelisted after them.
C8_WhitelistEntryExpires ==
    \A a \in Apps :
        whitelist_requests[a] # Nil =>
            /\ now < Val(whitelist_requests[a]) => IsWhitelisted(a)
            /\ now > Val(whitelist_requests[a]) => ~IsWhitelisted(a)

(***************************************************************************)
(* Metabolism scheduler: DataMetabolismCleaner.run.                        *)
(***************************************************************************)
L1ToL2Interval == L1ToL2Minutes * SecondsPerMinute
L2ToL3Interval == L2ToL3Hours * SecondsPerHour

\* _should_compress_l1_to_l2
ShouldCompressL1ToL2 ==
    IF last_l1_to_l2_time = Nil
    THEN TRUE
    ELSE now - Val(last_l1_to_l2_time) >= L1ToL2Interval

\* _should_transform_l2_to_l3
ShouldTransformL2ToL3 ==
    IF last_l2_to_l3_time = Nil
    THEN FALSE
    ELSE now - Val(last_l2_to_l3_time) >= L2ToL3Interval

\* What can fail in one iteration: nothing, the trim (ensure_initialized or
\* cleanup_old_logs), compress_logs_to_block, or generate_insights.
JobFailures == {"none", "trim", "compress", "transform"}

\* the trim is skipped by every failure of the iteration
TrimSkippedByAnyFailure(failure) == failure = "none"

\* The trim is the first statement of the loop body: it has completed
\* unless it is the trim itself that raises.
TrimRuns(failure) == failure # "trim"

\* the except clause of the loop body is reached only from the trim;
\* _compress_l1_to_l2 and _transform_l2_to_l3 catch their own exceptions
\* and return, so run() goes on and records the time of the job
IterationRaises(failure) == failure = "trim"

\* One iteration of the loop and its wait: trim, then compress and
\* transform when due.  When the trim raises, the rest of the iteration is
\* skipped (the except clause of the loop body).
CleanerIteration(failure) ==
    /\ now <= MaxCleanerTime
    /\ failure # "none" => jobs_run.failed + jobs_run.job_failures < MaxCleanerFailures
    /\ failure = "compress" => ShouldCompressL1ToL2
    /\ failure = "transform" => ShouldTransformL2ToL3
    /\ jobs_run' =
         [trim |-> IF TrimRuns(failure) THEN jobs_run.trim + 1 ELSE jobs_run.trim,
          compress |-> IF ~IterationRaises(failure) /\ ShouldCompressL1ToL2
                       THEN jobs_run.compress + 1 ELSE jobs_run.compress,
          transform |-> IF ~IterationRaises(failure) /\ ShouldTransformL2ToL3
                        THEN jobs_run.transform + 1 ELSE jobs_run.transform,
          failed |-> IF IterationRaises(failure)
                     THEN jobs_run.failed + 1 ELSE jobs_run.failed,
          job_failures |-> IF failure \in {"compress", "transform"}
                           THEN jobs_run.job_failures + 1 ELSE jobs_run.job_failures]
    /\ last_l1_to_l2_time' =
         IF ~IterationRaises(failure) /\ ShouldCompressL1ToL2
         THEN Some(now) ELSE last_l1_to_l2_time
    /\ last_l2_to_l3_time' =
         IF ~IterationRaises(failure) /\ ShouldTransformL2ToL3
         THEN Some(now) ELSE last_l2_to_l3_time
    /\ now' = now + CleanerCheckInterval
    /\ UNCHANGED <<walletVars, econVars, amVars, engVars, guiVars, enfVars, extVars>>

CleanerNext == \E failure \in JobFailures : CleanerIteration(failure)

CleanerInit == FreshWallet /\ EconInit /\ AppInit /\ ClnInit /\ EnfInit /\ ExtInit

SpecCleaner == CleanerInit /\ [][CleanerNext]_vars

\* C7: the transform job has not run when only the first tick is done, and
\* it has run once the tick at M hours after the start is done (no
\* iteration having failed).
C7_TransformSchedule ==
    /\ now <= CleanerCheckInterval => jobs_run.transform = 0
    /\ (now > L2ToL3Interval /\ jobs_run.failed = 0) => jobs_run.transform >= 1

\* C14: an iteration in which the compress or the transform job fails has
\* run the trim job, and so has every later iteration whose trim does not
\* itself fail.
C14_TrimSurvivesJobFailures ==
    [][(\/ jobs_run'.job_failures > jobs_run.job_failures
        \/ (jobs_run.job_failures > 0 /\ jobs_run'.failed = jobs_run.failed))
       => jobs_run'.trim = jobs_run.trim + 1]_vars

\* a compress run has failed and the trim has run in that iteration and in
\* a later one
C14_Witness ==
    /\ jobs_run.job_failures = 1
    /\ jobs_run.compress >= 2
    /\ jobs_run.trim = now \div CleanerCheckInterval

(***************************************************************************)
(* App blocking: EnforcementService.block_app and its watchdog.            *)
(***************************************************************************)
\* `import psutil` succeeded: process management is available
PSUTIL_AVAILABLE == TRUE

BlockedApps == {a \in Apps : blocked_apps[a] # Nil}

\* terminate_process: the running processes whose name contains the app
\* name; no name of Apps contains another
TerminateNone(names) == {}

TerminateProcess(names) ==
    IF PSUTIL_AVAILABLE THEN names \cap running_apps ELSE {}

\* _check_blocked_apps: `current_time >= until`
ExpiredApps == {a \in BlockedApps : now >= Val(blocked_apps[a])}

\* the timers stored in the entries of the given apps
EntryTimers(apps) ==
    {[app |-> a, fires |-> Val(blocked_apps[a])] : a \in apps \cap BlockedApps}

\* block_app without `old_timer.stop()`: the timer of the entry that is
\* replaced stays pending
StartUnblockTimerKeepsOld(app, fires) ==
    unblock_timers \cup {[app |-> app, fires |-> fires]}

\* block_app: `if app_name in self._blocked_apps: ... old_timer.stop()`, then
\* a new single-shot timer is started
StartUnblockTimer(app, fires) ==
    (unblock_timers \ EntryTimers({app})) \cup {[app |-> app, fires |-> fires]}

\* cleanup has run: stop() of the application is over
CleanedUp == terminated.by = "cleanup"

\* handle_action("BLOCK_APP", ...) -> block_app: set the entry and its
\* unblock timer, terminate running instances, start the watchdog
EnforcementBlockApp(app, duration_minutes) ==
    /\ blocked_apps' =
         [blocked_apps EXCEPT ![app] = Some(now + duration_minutes * SecondsPerMinute)]
    /\ unblock_timers' =
         StartUnblockTimer(app, now + duration_minutes * SecondsPerMinute)
    /\ terminated' = [by |-> "block_app", apps |-> TerminateProcess({app})]
    /\ running_apps' = running_apps \ TerminateProcess({app})
    /\ blocking_monitor' =
         IF blocking_monitor = Nil THEN Some(now + WatchdogInterval) ELSE blocking_monitor

BlockApp(app, duration_minutes) ==
    /\ handled < MaxBlockActions
    /\ ~CleanedUp
    /\ handled' = handled + 1
    /\ EnforcementBlockApp(app, duration_minutes)
    /\ UNCHANGED <<walletVars, econVars, now, snooze_timer, temp_whitelist,
                   whitelist_requests, strict_mode_until, engVars, guiVars, clnVars, extVars>>

\* An unblock timer fires: unblock_app, which stops the timer of the
\* entry, removes the entry and stops the watchdog when no entry is left
UnblockTimerFire(app) ==
    /\ \E t \in unblock_timers :
          /\ t.app = app
          /\ t.fires <= now
          /\ unblock_timers' = (unblock_timers \ {t}) \ EntryTimers({app})
    /\ blocked_apps' = [blocked_apps EXCEPT ![app] = Nil]
    /\ blocking_monitor' = IF BlockedApps = {app} THEN Nil ELSE blocking_monitor
    /\ terminated' = [by |-> None, apps |-> {}]
    /\ UNCHANGED <<walletVars, econVars, appVars, clnVars, extVars, running_apps>>

\* The watchdog timer fires: _check_blocked_apps unblocks the expired
\* entries and terminates the apps of the others
CheckBlockedApps ==
    /\ blocking_monitor # Nil
    /\ Val(blocking_monitor) <= now
    /\ IF PSUTIL_AVAILABLE
       THEN LET kept == BlockedApps \ ExpiredApps IN
            /\ blocked_apps' = [a \in Apps |-> IF a \in kept THEN blocked_apps[a] ELSE Nil]
            /\ unblock_timers' = unblock_timers \ EntryTimers(ExpiredApps)
            /\ terminated' = [by |-> "watchdog", apps |-> TerminateProcess(kept)]
            /\ running_apps' = running_apps \ TerminateProcess(kept)
            /\ blocking_monitor' =
                 IF ExpiredApps # {} /\ kept = {}
                 THEN Nil
                 ELSE Some(now + WatchdogInterval)
       ELSE /\ blocking_monitor' = Some(now + WatchdogInterval)
            /\ terminated' = [by |-> "watchdog", apps |-> {}]
            /\ UNCHANGED <<blocked_apps, unblock_timers, running_apps>>
    /\ UNCHANGED <<walletVars, econVars, appVars, clnVars, extVars>>

\* disable_strict_monitoring: the 10-second check timer is stopped and the
\* flag cleared; the end timers are not touched
DisableStrictMonitoring == FALSE

\* stop() of the application -> cleanup: disable_strict_monitoring,
\* _stop_blocking_monitor, then unblock_app for every entry
Cleanup ==
    /\ ~CleanedUp
    /\ strict_mode_active' = DisableStrictMonitoring
    /\ blocking_monitor' = Nil
    /\ unblock_timers' = unblock_timers \ EntryTimers(BlockedApps)
    /\ blocked_apps' = [a \in Apps |-> Nil]
    /\ terminated' = [by |-> "cleanup", apps |-> {}]
    /\ UNCHANGED <<walletVars, econVars, appVars, clnVars, running_apps,
                   llm, memVars, audit_records, callVars, xfVars, loopVars,
                   action_raised, chosen, strict_end_timers, moreVars>>

\* The user starts an app
Launch(app) ==
    /\ ~CleanedUp
    /\ app \notin running_apps
    /\ running_apps' = running_apps \cup {app}
    /\ terminated' = [by |-> None, apps |-> {}]
    /\ UNCHANGED <<walletVars, econVars, appVars, clnVars, extVars, blocked_apps,
                   unblock_timers, blocking_monitor>>

\* A timer of the enforcement service is due
EnforcementTimersDue ==
    \/ blocking_monitor # Nil /\ Val(blocking_monitor) <= now
    \/ \E t \in unblock_timers : t.fires <= now

\* One second passes while an entry exists; due timers fire first.  With
\* no entry no timer runs and the passing of time changes nothing.
EnforcementTick ==
    /\ now < MaxBlockTime
    /\ BlockedApps # {}
    /\ ~EnforcementTimersDue
    /\ now' = now + 1
    /\ terminated' = [by |-> None, apps |-> {}]
    /\ UNCHANGED <<walletVars, econVars, amVars, engVars, guiVars, clnVars, extVars,
                   blocked_apps, unblock_timers, blocking_monitor, running_apps>>

EnforcementNext ==
    \/ \E app \in Apps, d \in 1..MaxDurationMinutes : BlockApp(app, d)
    \/ \E app \in Apps : UnblockTimerFire(app)
    \/ CheckBlockedApps
    \/ \E app \in Apps : Launch(app)
    \/ EnforcementTick
    \/ Cleanup

EnforcementInit == FreshWallet /\ EconInit /\ AppInit /\ ClnInit /\ EnfInit /\ ExtInit

SpecEnforcement == EnforcementInit /\ [][EnforcementNext]_vars

Unexpired(a) == blocked_apps[a] # Nil /\ now < Val(blocked_apps[a])

WatchdogStep ==
    /\ blocking_monitor # Nil
    /\ Val(blocking_monitor) <= now
    /\ blocking_monitor' # blocking_monitor
    /\ terminated'.by = "watchdog"

ReblockedApp(a) ==
    /\ handled' = handled + 1
    /\ terminated'.by = "block_app"
    /\ blocked_apps[a] # Nil
    /\ blocked_apps'[a] # blocked_apps[a]

\* C40: the 5-second watchdog timer is running exactly while an app is
\* blocked; every blocked app has one entry and one pending unblock timer,
\* which fires at the entry's deadline, and no other unblock timer is
\* pending; block_app for an app that is blocked replaces its entry and
\* its deadline.  This holds across block_app, unblock timers firing,
\* watchdog ticks and cleanup.
C40_WatchdogIffBlockedOneTimerEach ==
    /\ []((blocking_monitor # Nil) <=> (BlockedApps # {}))
    /\ [](\A a \in Apps :
            {t \in unblock_timers : t.app = a} = EntryTimers({a}))
    /\ [][\A a \in BlockedApps : ReblockedApp(a) =>
            /\ Val(blocked_apps'[a]) >= now + SecondsPerMinute
            /\ Cardinality({t \in unblock_timers' : t.app = a}) = 1]_vars

\* an app was blocked again while its entry was pending, at a later
\* second: one entry with the new deadline, one timer, the watchdog running
C40_Witness ==
    /\ handled = 2
    /\ now < SecondsPerMinute
    /\ terminated.by = "block_app"
    /\ \E a \in BlockedApps :
          /\ BlockedApps = {a}
          /\ Val(blocked_apps[a]) > SecondsPerMinute
          /\ unblock_timers = {[app |-> a, fires |-> Val(blocked_apps[a])]}
    /\ blocking_monitor # Nil


(***************************************************************************)
(* services/llm_service.py: LLMService.analyze_activity, the oracle query  *)
(* of one supervision tick, with its retries.                              *)
(***************************************************************************)
MaxRetries == 3                  \* analyze_activity(max_retries=3)
BaseDelay == 1                   \* analyze_activity(base_delay=1.0), seconds

\* What one HTTP exchange with the oracle can bring back.  transport: the
\* request itself; envelope: the provider's JSON wrapper; body: the text of
\* the reply, which should be the verdict as JSON.
Transports == {"ok", "timeout", "http_error"}
Envelopes == {"ok", "not_json", "error_response", "no_choices_key", "empty_choices"}
Bodies == {"well_formed", "fenced_well_formed", "not_json", "json_null",
           "json_string", "missing_field", "options_null", "option_without_label"}
OracleAnswers ==
    { [transport |-> t, envelope |-> "ok", body |-> "well_formed"] :
            t \in Transports \ {"ok"} }
    \cup { [transport |-> "ok", envelope |-> e, body |-> "well_formed"] :
            e \in Envelopes \ {"ok"} }
    \cup { [transport |-> "ok", envelope |-> "ok", body |-> b] : b \in Bodies }

\* _call_openai_api: requests.post, raise_for_status, response.json(),
\* data["choices"][0]["message"]["content"].  The exception raised, or None.
CallOpenaiApi(answer) ==
    CASE answer.transport = "timeout" -> "Timeout"
      [] answer.transport = "http_error" -> "HTTPError"
      [] answer.envelope = "not_json" -> "JSONDecodeError"
      [] answer.envelope \in {"error_response", "no_choices_key"} -> "KeyError"
      [] answer.envelope = "empty_choices" -> "IndexError"
      [] OTHER -> None

\* _call_hunyuan_api: as above, but an Error entry, a missing Choices key
\* and a missing Response key raise ValueError.
CallHunyuanApi(answer) ==
    CASE answer.transport = "timeout" -> "Timeout"
      [] answer.transport = "http_error" -> "HTTPError"
      [] answer.envelope = "not_json" -> "JSONDecodeError"
      [] answer.envelope \in {"error_response", "no_choices_key"} -> "ValueError"
      [] answer.envelope = "empty_choices" -> "IndexError"
      [] OTHER -> None

CallApi(is_hunyuan, answer) ==
    IF is_hunyuan THEN CallHunyuanApi(answer) ELSE CallOpenaiApi(answer)

\* _parse_json_response: strips a markdown fence, json.loads, checks the
\* four required fields with "field not in data", builds the options with
\* opt["label"] and opt["action_type"].  The exception raised, or None.
ParseJsonResponse(body) ==
    CASE body = "not_json" -> "JSONDecodeError"
      [] body = "json_null" -> "TypeError"            \* "x" not in None
      [] body = "json_string" -> "KeyError"           \* "x" not in "text" is true
      [] body = "missing_field" -> "KeyError"
      [] body = "options_null" -> "TypeError"         \* for opt in None
      [] body = "option_without_label" -> "KeyError"
      [] OTHER -> None

\* the exception one attempt ends with, or None when it returns a verdict
AttemptException(is_hunyuan, answer) ==
    IF CallApi(is_hunyuan, answer) # None
    THEN CallApi(is_hunyuan, answer)
    ELSE ParseJsonResponse(answer.body)

\* except (json.JSONDecodeError, KeyError) / except (requests.RequestException,
\* requests.Timeout); Timeout and HTTPError are RequestExceptions
CaughtByRetry(exc) ==
    exc \in {"JSONDecodeError", "KeyError", "Timeout", "HTTPError"}

\* delay = base_delay * (2 ** attempt)
Backoff(attempt) == BaseDelay * (2 ^ attempt)

\* the engine calls analyze_activity
AnalyzeActivity(is_hunyuan) ==
    /\ llm.pc \in {"idle", "returned", "raised"}
    /\ llm' = [pc |-> "attempt", is_hunyuan |-> is_hunyuan, attempt |-> 0,
               answers |-> <<>>, sleeps |-> <<>>, result |-> None, raised |-> None]
    /\ UNCHANGED <<walletVars, econVars, appVars, clnVars, enfVars, memVars, audit_records,
                   callVars, xfVars, loopVars, lateVars>>

\* one pass of "for attempt in range(max_retries)": the call, the parse, and
\* on a caught exception the sleep before the next attempt
AnalyzeAttempt(answer) ==
    /\ llm.pc = "attempt"
    /\ LET exc == AttemptException(llm.is_hunyuan, answer)
           answers == Append(llm.answers, answer)
       IN  IF exc = None
           THEN llm' = [llm EXCEPT !.pc = "returned", !.answers = answers,
                                   !.result = "verdict"]
           ELSE IF ~CaughtByRetry(exc)
           THEN llm' = [llm EXCEPT !.pc = "raised", !.answers = answers,
                                   !.raised = exc]
           ELSE IF llm.attempt < MaxRetries - 1
           THEN llm' = [llm EXCEPT !.attempt = @ + 1, !.answers = answers,
                                   !.sleeps = Append(@, Backoff(llm.attempt))]
           ELSE llm' = [llm EXCEPT !.pc = "returned", !.answers = answers,
                                   !.result = None]
    /\ UNCHANGED <<walletVars, econVars, appVars, clnVars, enfVars, memVars, audit_records,
                   callVars, xfVars, loopVars, lateVars>>

LlmNext ==
    \/ \E is_hunyuan \in BOOLEAN : AnalyzeActivity(is_hunyuan)
    \/ \E answer \in OracleAnswers : AnalyzeAttempt(answer)

LlmSpecInit == FreshWallet /\ EconInit /\ AppInit /\ ClnInit /\ EnfInit /\ ExtInit

SpecLlm == LlmSpecInit /\ [][LlmNext]_vars

\* an answer that carries a verdict: the request succeeded, the provider's
\* wrapper is intact and the body is the verdict object (fenced or not)
WellFormed(answer) ==
    /\ answer.transport = "ok"
    /\ answer.envelope = "ok"
    /\ answer.body \in {"well_formed", "fenced_well_formed"}

\* C11: analyze_activity asks the oracle at most 3 times, sleeping 1 s and
\* then 2 s between attempts; every answer that is not well formed counts as
\* a retryable failure; it returns the first well-formed verdict, or None
\* after the third failure, and it never raises.
C11_AnalyzeActivityRetries ==
    /\ llm.raised = None
    /\ Len(llm.answers) <= 3
    /\ \A i \in DOMAIN llm.sleeps : llm.sleeps[i] = <<1, 2>>[i]
    /\ \A i \in DOMAIN llm.answers :
            i < Len(llm.answers) => ~WellFormed(llm.answers[i])
    /\ llm.pc = "attempt" =>
            /\ Len(llm.sleeps) = Len(llm.answers)
            /\ \A i \in DOMAIN llm.answers : ~WellFormed(llm.answers[i])
    /\ llm.pc = "returned" =>
            /\ Len(llm.sleeps) = Len(llm.answers) - 1
            /\ llm.result = "verdict" <=> WellFormed(llm.answers[Len(llm.answers)])
            /\ llm.result = None => Len(llm.answers) = 3


(***************************************************************************)
(* services/action_manager.py: handle_action with every action type, the   *)
(* episodic event log and the recently-closed keyword cache.               *)
(***************************************************************************)
MaxRecordedActions == 3          \* handle_action calls explored
DefaultMinimizeMinutes == 10     \* payload.get("duration", 10)
DefaultBlockMinutes == 60        \* payload.get("duration_minutes", 60)
CooldownSeconds == 300           \* current_time - timestamp > 300

AllActionTypes ==
    ActionTypes \cup {"CLOSE_WINDOW", "MINIMIZE_WINDOW", "BLOCK_APP",
                      "FORCE_CEASE_FIRE", "CLOSE_TAB"}

\* keywords as the oracle writes them into a payload, and window titles
Keywords == {"", "Bilibili", "youtube"}
Titles == {"bilibili video", "docs"}

\* str.lower()
Lower(text) == IF text = "Bilibili" THEN "bilibili" ELSE text

\* `a in b` for the lower-case strings of the model
IsSubstring(a, b) ==
    \/ a = ""
    \/ a = b
    \/ a = "bilibili" /\ b = "bilibili video"

RecordedPayloads ==
    { [app |-> a, duration_minutes |-> d, duration_hours |-> Nil, keyword |-> k] :
        a \in {"", "chrome.exe"}, d \in Durations, k \in Keywords }

\* storage/database.py defines no record_episodic_event, so the import at
\* the head of the try block of _record_episodic_event raises ImportError
RecordEpisodicEventDefined == FALSE

\* The event type a handler passes to _record_episodic_event, None when
\* the handler makes no such call.  _handle_close_tab makes it only after
\* the tab was closed; _handle_whitelist_temp, _handle_strict_mode_enhanced,
\* _handle_block_app and _handle_force_cease_fire never make it.
EpisodicEventType(action_type, payload, success) ==
    CASE action_type = "DISMISS" -> "USER_DISMISSED"
      [] action_type = "SNOOZE" -> "USER_SNOOZED"
      [] action_type = "CLOSE_WINDOW" -> "USER_CLOSED_WINDOW"
      [] action_type = "MINIMIZE_WINDOW" -> "USER_MINIMIZED"
      [] action_type = "CLOSE_TAB" /\ payload.keyword # "" /\ success -> "USER_CLOSED_TAB"
      [] OTHER -> None

\* _record_episodic_event: returns at once without a db path; otherwise the
\* insert is attempted and every exception is logged and dropped
RecordEpisodicEvent(event_type) ==
    episodic_events' =
        IF event_type = None \/ db_path = Nil \/ ~RecordEpisodicEventDefined
        THEN episodic_events
        ELSE Append(episodic_events, event_type)

\* _handle_close_tab: after a successful close the keyword goes into the
\* cache with the current time
ClosedKeywordsAfter(action_type, payload, success) ==
    IF action_type = "CLOSE_TAB" /\ payload.keyword # "" /\ success
    THEN [recently_closed_keywords EXCEPT ![Lower(payload.keyword)] = Some(now)]
    ELSE recently_closed_keywords

\* _handle_minimize_window: `payload.get("duration_minutes",
\* payload.get("duration", 10))`, handed to _handle_snooze
MinimizePayload(payload) ==
    [payload EXCEPT !.duration_minutes =
        IF payload.duration_minutes = Nil THEN Some(DefaultMinimizeMinutes) ELSE @]

\* monitors/chrome_monitor.py: class ChromeMonitor defines no
\* add_closed_url, so the call of it in _handle_close_tab raises
\* AttributeError
AddClosedUrlDefined == FALSE

\* The exception that leaves handle_action, or None.  After a closed tab
\* _handle_close_tab calls ChromeMonitor.add_closed_url inside
\* `try: ... except ImportError`, which does not catch AttributeError.
ActionRaised(action_type, payload, success) ==
    IF action_type = "CLOSE_TAB" /\ payload.keyword # "" /\ success
       /\ ~AddClosedUrlDefined
    THEN "AttributeError"
    ELSE None

\* handle_action with the handlers of all nine action types.  success: did
\* WindowController.close_current_tab_safely close the tab
HandleActionRecorded(action_type, payload, success) ==
    /\ handled < MaxRecordedActions
    /\ last_action' = action_type
    /\ action_raised' = ActionRaised(action_type, payload, success)
    /\ RecordEpisodicEvent(EpisodicEventType(action_type, payload, success))
    /\ recently_closed_keywords' = ClosedKeywordsAfter(action_type, payload, success)
    /\ CASE action_type \in ActionTypes ->
              /\ HandleAction(action_type, payload)
              /\ UNCHANGED <<dialog, enfVars>>
         [] action_type = "MINIMIZE_WINDOW" ->
              /\ handled' = handled + 1
              /\ HandleSnooze(MinimizePayload(payload))
              /\ UNCHANGED <<dialog, enfVars>>
         [] action_type = "BLOCK_APP" /\ payload.app # "" ->
              /\ handled' = handled + 1
              /\ EnforcementBlockApp(payload.app,
                                     DurationMinutes(payload, DefaultBlockMinutes))
              /\ UNCHANGED <<dialog, snooze_timer, temp_whitelist, whitelist_requests,
                             strict_mode_until>>
         [] action_type = "FORCE_CEASE_FIRE" ->
              /\ handled' = handled + 1
              /\ dialog' = HiddenDialog
              /\ UNCHANGED <<snooze_timer, temp_whitelist, whitelist_requests,
                             strict_mode_until, enfVars>>
         [] OTHER ->
              /\ handled' = handled + 1
              /\ UNCHANGED <<dialog, snooze_timer, temp_whitelist, whitelist_requests,
                             strict_mode_until, enfVars>>
    /\ UNCHANGED <<walletVars, econVars, now, engVars, gui_queue, audit_workers,
                   gui_timers, choices, clnVars, llm, db_path, last_tick, audit_records,
                   callVars, xfVars, loopVars, chosen, strictVars, moreVars>>

EpisodicNext ==
    \E action_type \in AllActionTypes, payload \in RecordedPayloads, success \in BOOLEAN :
        HandleActionRecorded(action_type, payload, success)

EpisodicInit == FreshWallet /\ EconInit /\ AppInit /\ ClnInit /\ EnfInit /\ ExtInit

SpecEpisodic == EpisodicInit /\ [][EpisodicNext]_vars

\* C31: no exception escapes handle_action, for any action type and any
\* outcome of the actuator call (close window, minimize, terminate, close
\* tab).
C31_NoExceptionEscapesHandleAction == action_raised = None

\* the actions the episodic log has to mirror
MirroredActions ==
    {"DISMISS", "SNOOZE", "CLOSE_WINDOW", "MINIMIZE_WINDOW", "BLOCK_APP",
     "FORCE_CEASE_FIRE"}

\* C15: every handle_action call for a dismiss, snooze, close, minimize,
\* block or forced cease-fire appends one event to the episodic event log.
C15_ActionsMirroredInEpisodicLog ==
    [][(handled' = handled + 1 /\ last_action' \in MirroredActions)
       => Len(episodic_events') = Len(episodic_events) + 1]_vars


(***************************************************************************)
(* The recently-closed keyword cache and the supervision loop.             *)
(***************************************************************************)
MaxTabTime == 330                \* seconds explored, past one cooldown

\* is_keyword_recently_closed: entries older than the cooldown are dropped,
\* then the keyword is compared with every entry left, either containing
\* the other
IsKeywordRecentlyClosed(keyword) ==
    \E k \in DOMAIN recently_closed_keywords :
        /\ recently_closed_keywords[k] # Nil
        /\ ~(now - Val(recently_closed_keywords[k]) > CooldownSeconds)
        /\ IsSubstring(k, Lower(keyword)) \/ IsSubstring(Lower(keyword), k)

\* The callers of is_keyword_recently_closed in the repository: none.
KeywordCacheConsulted == FALSE

\* what the latest activity record of a tick can be
TabActivities ==
    { [app |-> a, title |-> t] : a \in {"chrome.exe"}, t \in Titles }
    \cup { [app |-> "", title |-> ""] }

\* One pass of the while loop of SupervisionEngine.run with its wait:
\* snooze check, activity reads, whitelist check, strict-mode check,
\* get_balance, oracle query, dispatch, _wait_next_check.
SupervisionTick(activity, verdict) ==
    /\ now < MaxTabTime
    /\ gui_queue = <<>>
    /\ LET queried == /\ ~IsSnoozed
                      /\ activity.app # ""
                      /\ ~IsWhitelisted(activity.app)
                      /\ ~(KeywordCacheConsulted /\ IsKeywordRecentlyClosed(activity.title))
           dispatched == queried /\ DispatchesIntervention(verdict)
       IN  /\ check_interval' = IF queried THEN IntervalAfterStrictCheck ELSE check_interval
           /\ strict_mode_until' = IF queried THEN StrictModeAfterCheck ELSE strict_mode_until
           /\ IF queried THEN ReadBalance ELSE UNCHANGED walletVars
           /\ gui_queue' = IF dispatched
                           THEN Append(gui_queue, ShowDialogRequested)
                           ELSE gui_queue
           /\ last_tick' = [n |-> last_tick.n + 1, activity |-> activity,
                            dispatched |-> dispatched]
           /\ now' = now + check_interval'
    /\ UNCHANGED <<econVars, snooze_timer, temp_whitelist, whitelist_requests, handled,
                   eng, dialog, audit_workers, gui_timers, choices, clnVars, enfVars,
                   llm, db_path, episodic_events, recently_closed_keywords, last_action,
                   audit_records, callVars, xfVars, loopVars, lateVars>>

ClosedTabsNext ==
    \/ \E payload \in RecordedPayloads, success \in BOOLEAN :
            HandleActionRecorded("CLOSE_TAB", payload, success)
    \/ \E activity \in TabActivities, verdict \in Verdicts :
            SupervisionTick(activity, verdict)
    \/ OnShowDialogRequested

ClosedTabsInit == FreshWallet /\ EconInit /\ AppInit /\ ClnInit /\ EnfInit /\ ExtInit

SpecClosedTabs == ClosedTabsInit /\ [][ClosedTabsNext]_vars

\* C16: a tick that reads activity matching a keyword closed with CLOSE_TAB
\* no more than 5 minutes ago requests no intervention.
C16_NoInterventionDuringCooldown ==
    [][(last_tick'.n # last_tick.n /\ IsKeywordRecentlyClosed(last_tick'.activity.title))
       => ~last_tick'.dispatched]_vars


(***************************************************************************)
(* Interaction audits from the user's choice to the interaction_audits     *)
(* row: the dialog, the AuditWorker thread and the delivery of its signal, *)
(* with the scheduling the threads have.                                   *)
(***************************************************************************)
AuditNext ==
    \/ EngineSnoozeCheck
    \/ \E activity \in Activities : EngineReadActivity(activity)
    \/ EngineStrictCheck
    \/ \E verdict \in Verdicts : EngineOracleReturn(verdict)
    \/ OnShowDialogRequested
    \/ \E option \in Options : UserChoose(option)
    \/ \E i \in 1..MaxChoices, outcome \in AuditOutcomes : AuditWorkerRun(i, outcome)
    \/ OnAuditCompleted

AuditInit == WalletInit /\ EconInit /\ AppInit /\ ClnInit /\ EnfInit /\ ExtInit

\* A started AuditWorker thread runs to its signal (the oracle call has a
\* timeout and every exception is caught), and the GUI event loop handles
\* every queued signal.
SpecAudit ==
    /\ AuditInit
    /\ [][AuditNext]_vars
    /\ WF_vars(\E i \in 1..MaxChoices, outcome \in AuditOutcomes : AuditWorkerRun(i, outcome))
    /\ WF_vars(OnShowDialogRequested)
    /\ WF_vars(OnAuditCompleted)

\* C32: when an audited SNOOZE or WHITELIST_TEMP choice is APPROVED or
\* PRICE_ADJUSTED, the action is executed with the parameters of the option
\* the user chose: the snooze lasts the chosen duration_minutes and the
\* chosen app is whitelisted afterwards.
C32_AuditedActionKeepsParameters ==
    [][(/\ handled' = handled + 1
        /\ gui_queue # <<>>
        /\ Head(gui_queue).kind = "audit_completed"
        /\ chosen # Nil)
       => LET option == Val(chosen) IN
          /\ option.action_type = "SNOOZE" =>
                snooze_timer' =
                    Some(now + DurationMinutes(Payload(option), DefaultSnoozeMinutes)
                                  * SecondsPerMinute)
          /\ (option.action_type = "WHITELIST_TEMP" /\ option.app # "") =>
                IsWhitelisted(option.app)']_vars

\* C33: for the same action, original cost and balance, a PRICE_ADJUSTED
\* audit outcome never leaves the user paying less than an APPROVED outcome
\* would (the original cost, when the balance covers it); the claim adds
\* that the amount deducted for an executed audited action is at least the
\* original cost, which is stronger.
C33_AdjustedNeverCheaperThanApproved ==
    [][(/\ handled' = handled + 1
        /\ gui_queue # <<>>
        /\ Head(gui_queue).kind = "audit_completed"
        /\ Head(gui_queue).result = "PRICE_ADJUSTED")
       => wallet_balance - wallet_balance' >=
            (IF Insufficient(GetBalance, Head(gui_queue).original_cost)
             THEN 0
             ELSE Head(gui_queue).original_cost)]_vars

\* C37: every AuditRecord stores the consistency score its decision was
\* based on: the stored audit_result is the band of the stored
\* consistency_score (>= 0.7 APPROVED, [0.4, 0.7) PRICE_ADJUSTED, < 0.4
\* REJECTED).
C37_RecordedScoreMatchesResult ==
    \A i \in DOMAIN audit_records :
        audit_records[i].result =
            DetermineResult(audit_records[i].consistency_score,
                            audit_records[i].original_cost).result

\* audits started by audit_user_choice whose signal has not been delivered
AuditsInFlight ==
    Len(audit_workers)
    + Cardinality({i \in DOMAIN gui_queue : gui_queue[i].kind = "audit_completed"})

MaxAuditCost == 10               \* original costs 1..MaxAuditCost

\* consistency scores from 0.0 to 1.0 in steps of 0.05, the two thresholds
\* and the values 0.00001 below them
CallScores ==
    {5000 * k : k \in 0..20}
    \cup {AdjustedThreshold - 1, AdjustedThreshold, ApprovedThreshold - 1, ApprovedThreshold}

\* _determine_result(consistency_score) of a worker with this original cost
DetermineResultCall(consistency_score, original_cost) ==
    /\ audit_call' =
         Some([consistency_score |-> consistency_score,
               original_cost |-> original_cost,
               result |-> DetermineResult(consistency_score, original_cost).result,
               final_cost |-> DetermineResult(consistency_score, original_cost).final_cost])
    /\ UNCHANGED <<walletVars, econVars, appVars, clnVars, enfVars, llm, memVars,
                   audit_records, price_call, recovery_call, xfVars, loopVars, lateVars>>

DetermineNext ==
    \E consistency_score \in CallScores, original_cost \in 1..MaxAuditCost :
        DetermineResultCall(consistency_score, original_cost)

DetermineInit == FreshWallet /\ EconInit /\ AppInit /\ ClnInit /\ EnfInit /\ ExtInit

SpecDetermine == DetermineInit /\ [][DetermineNext]_vars

\* the result and final cost the bands of the decision rule give, the
\* adjusted cost being 1.5 times the original cost rounded down
BandsRoundedDown(c) ==
    /\ c.consistency_score >= 70000 =>
            c.result = "APPROVED" /\ c.final_cost = c.original_cost
    /\ (c.consistency_score >= 40000 /\ c.consistency_score < 70000) =>
            /\ c.result = "PRICE_ADJUSTED"
            /\ 2 * c.final_cost <= 3 * c.original_cost
            /\ 2 * (c.final_cost + 1) > 3 * c.original_cost
    /\ c.consistency_score < 40000 =>
            c.result = "REJECTED" /\ c.final_cost = c.original_cost

\* C18 (amended): score >= 0.7 gives APPROVED at the original cost; 0.4 <=
\* score < 0.7 gives PRICE_ADJUSTED at 1.5 times the original cost rounded
\* down to a whole coin; score < 0.4 gives REJECTED at the original cost.
\* 0.7 is APPROVED, 0.69999 and 0.4 are PRICE_ADJUSTED, 0.39999 is
\* REJECTED, and 0.55 with cost 10 gives PRICE_ADJUSTED with final cost 15.
C18_DecisionBands ==
    audit_call # Nil =>
        LET c == Val(audit_call) IN
        /\ BandsRoundedDown(c)
        /\ c.consistency_score = 70000 => c.result = "APPROVED"
        /\ c.consistency_score \in {69999, 40000} => c.result = "PRICE_ADJUSTED"
        /\ c.consistency_score = 39999 => c.result = "REJECTED"
        /\ (c.consistency_score = 55000 /\ c.original_cost = 10) =>
                c.result = "PRICE_ADJUSTED" /\ c.final_cost = 15

\* the scenario of the claim: score 0.55, original cost 10, final cost 15
C18_Witness ==
    /\ audit_call # Nil
    /\ Val(audit_call).consistency_score = 55000
    /\ Val(audit_call).original_cost = 10
    /\ Val(audit_call).final_cost = 15

\* C18 as stated: in the middle band the final cost is exactly 1.5 times
\* the original cost.
C18_AdjustedCostExact ==
    (audit_call # Nil /\ Val(audit_call).result = "PRICE_ADJUSTED")
        => 2 * Val(audit_call).final_cost = 3 * Val(audit_call).original_cost


(***************************************************************************)
(* services/economy_service.py: EconomyService.calculate_price as a        *)
(* function of the action type, the severity, the streak and the balance   *)
(* that get_balance returns.                                               *)
(***************************************************************************)
MaxStreak == 3                   \* streak counters 0..MaxStreak, and 10

\* the keys of DEFAULT_BASE_PRICES
PriceActionTypes == {"SNOOZE", "DISMISS", "WHITELIST_TEMP", "STRICT_MODE"}

\* DEFAULT_BASE_PRICES.get(action_type, 0)
BasePrice(action_type) ==
    CASE action_type = "SNOOZE" -> 5
      [] action_type = "DISMISS" -> 0
      [] action_type = "WHITELIST_TEMP" -> 20
      [] action_type = "STRICT_MODE" -> 0 - 10
      [] OTHER -> 0

\* severity 0.5, 1.0, 1.5, 2.0, counted in halves
SeverityHalves == 1..4

StreakCounts == (0..MaxStreak) \cup {10}
Streaks ==
    {Nil} \cup { Some([consecutive_distractions |-> d, consecutive_focus |-> f]) :
                    d \in 0..MaxStreak, f \in StreakCounts }

BalanceSamples == {0 - 1, 0, 1, 3, 5, 20, 100}

Max(a, b) == IF a >= b THEN a ELSE b

\* int(price * x) for x = tenths / 10 >= 0.  For the prices and factors of
\* this model the floating-point product truncates to the same integer.
TruncatedProduct(price, tenths) == (price * tenths) \div 10

\* int(base_price * severity)
SeverityPrice(base_price, severity_halves) == (base_price * severity_halves) \div 2

\* the streak adjustment compounds: 1.2 per distraction unit and 0.9 per
\* focus unit, truncated once
CompoundStreakPrice(price, user_streak) ==
    IF user_streak = Nil
    THEN price
    ELSE LET d == Val(user_streak).consecutive_distractions
             f == Val(user_streak).consecutive_focus
         IN  (price * (12 ^ d) * (9 ^ f)) \div (10 ^ (d + f))

\* `if user_streak:` ... price = int(price * (1 + consecutive_distractions
\* * 0.2)), then price = int(price * (1 - consecutive_focus * 0.1))
StreakPrice(price, user_streak) ==
    IF user_streak = Nil
    THEN price
    ELSE LET d == Val(user_streak).consecutive_distractions
             f == Val(user_streak).consecutive_focus
             raised == IF d > 0 THEN TruncatedProduct(price, 10 + 2 * d) ELSE price
         IN  IF f > 0 THEN TruncatedProduct(raised, 10 - f) ELSE raised

\* no bankruptcy protection: only the floor of 1 coin
FlooredPrice(price, current_balance) == Max(1, price)

\* bankruptcy protection, then `price = max(1, price)`
ClampedPrice(price, current_balance) ==
    Max(1, IF current_balance < price /\ price > 1
           THEN Max(1, current_balance)
           ELSE price)

\* calculate_price called while get_balance returns current_balance
CalculatePriceCall(action_type, severity_halves, user_streak, current_balance) ==
    /\ price_call' =
         LET base_price == BasePrice(action_type)
             streak_price == StreakPrice(SeverityPrice(base_price, severity_halves),
                                         user_streak)
         IN  Some([action_type |-> action_type, severity_halves |-> severity_halves,
                   user_streak |-> user_streak, current_balance |-> current_balance,
                   base_price |-> base_price,
                   streak_price |-> IF base_price > 0 THEN streak_price ELSE base_price,
                   price |-> IF base_price > 0
                             THEN ClampedPrice(streak_price, current_balance)
                             ELSE base_price])
    /\ UNCHANGED <<walletVars, econVars, appVars, clnVars, enfVars, llm, memVars,
                   audit_records, audit_call, recovery_call, xfVars, loopVars, lateVars>>

PriceNext ==
    \E action_type \in PriceActionTypes, severity_halves \in SeverityHalves,
       user_streak \in Streaks, current_balance \in BalanceSamples :
        CalculatePriceCall(action_type, severity_halves, user_streak, current_balance)

PriceInit == FreshWallet /\ EconInit /\ AppInit /\ ClnInit /\ EnfInit /\ ExtInit

SpecPrice == PriceInit /\ [][PriceNext]_vars

\* C19 (amended): for a paid action, when the price P computed from base,
\* severity and streak exceeds the balance B and P > 1, calculate_price
\* returns max(1, B), which is <= P; otherwise it returns max(1, P).
\* Balance 100, SNOOZE, no streak, severity 1 gives 5; balance 3 gives 3.
C19_PriceClamping ==
    (price_call # Nil /\ Val(price_call).base_price > 0) =>
        LET c == Val(price_call)
            P == c.streak_price
            B == c.current_balance
        IN  /\ IF P > B /\ P > 1
               THEN c.price = (IF B >= 1 THEN B ELSE 1) /\ c.price <= P
               ELSE c.price = (IF P >= 1 THEN P ELSE 1)
            /\ (c.action_type = "SNOOZE" /\ c.severity_halves = 2 /\ c.user_streak = Nil)
                    => /\ B = 100 => c.price = 5
                       /\ B = 3 => c.price = 3

\* the scenario of the claim: balance 3, SNOOZE, severity 1, no streak,
\* price clamped to 3
C19_Witness ==
    /\ price_call # Nil
    /\ Val(price_call).action_type = "SNOOZE"
    /\ Val(price_call).current_balance = 3
    /\ Val(price_call).streak_price = 5
    /\ Val(price_call).price = 3

\* C19 as stated: outside the clamping case a paid action costs exactly the
\* computed price P.
C19_UnclampedPriceReturned ==
    (price_call # Nil /\ Val(price_call).base_price > 0) =>
        LET c == Val(price_call) IN
        ~(c.streak_price > c.current_balance /\ c.streak_price > 1)
            => c.price = c.streak_price

\* the price after n compounding steps of (tenths / 10), truncated at
\* every step
RECURSIVE CompoundStepwise(_, _, _)
CompoundStepwise(price, tenths, n) ==
    IF n = 0 THEN price
    ELSE CompoundStepwise((price * tenths) \div 10, tenths, n - 1)

\* C20: with a streak supplied (here of at most three units of each kind),
\* the price before clamping is the severity price times 1.2 per consecutive-
\* distraction unit and 0.9 per consecutive-focus unit (truncated once at
\* the end, or after every unit).
C20_StreakCompounds ==
    (price_call # Nil /\ Val(price_call).base_price > 0
        /\ Val(price_call).user_streak # Nil
        /\ Val(Val(price_call).user_streak).consecutive_distractions <= 3
        /\ Val(Val(price_call).user_streak).consecutive_focus <= 3) =>
        LET c == Val(price_call)
            d == Val(c.user_streak).consecutive_distractions
            f == Val(c.user_streak).consecutive_focus
            p == SeverityPrice(c.base_price, c.severity_halves)
        IN  c.streak_price \in
                {CompoundStreakPrice(p, c.user_streak),
                 CompoundStepwise(CompoundStepwise(p, 12, d), 9, f)}


(***************************************************************************)
(* services/recovery_detector.py: RecoveryDetector.detect_recovery as a    *)
(* function of what the event log returns, the time since the close event  *)
(* and the current foreground context.  Texts are sequences of characters. *)
(***************************************************************************)
GracePeriod == 30                \* grace_period_seconds
DetectionWindow == 120           \* detection_window_seconds
ConfidenceThreshold == 70        \* confidence_threshold 0.7, in hundredths

\* str.lower(), on the letters the sample texts use
LowerText(text) ==
    [i \in DOMAIN text |->
        CASE text[i] = "C" -> "c"
          [] text[i] = "G" -> "g"
          [] text[i] = "N" -> "n"
          [] OTHER -> text[i]]

\* `kw in text`
Contains(text, kw) ==
    \E i \in 0..(Len(text) - Len(kw)) : SubSeq(text, i + 1, i + Len(kw)) = kw

\* DISTRACTION_KEYWORDS, WORK_KEYWORDS, work_apps and browsers: the entries
\* the sample texts can match
DISTRACTION_KEYWORDS == {<<"g", "a", "m", "e">>}
WORK_KEYWORDS == {<<"c", "o", "d", "e">>, <<"d", "o", "c", "s">>}
WorkApps == {<<"c", "o", "d", "e">>}
Browsers == {<<"c", "h", "r", "o", "m", "e">>}

\* _is_distraction_url, and the same loop over the title
MatchesDistraction(text) ==
    text # <<>> /\ \E kw \in DISTRACTION_KEYWORDS : Contains(LowerText(text), kw)

\* What get_last_close_event returns: nothing, or the latest closing or
\* dismissing event inside the detection window with the keyword its
\* metadata carries; its timestamp may fail to parse.
CloseEventTypes == {"USER_CLOSED_TAB", "USER_CLOSED_WINDOW", "USER_MINIMIZED",
                    "USER_DISMISSED"}
LastCloseEvents ==
    {Nil} \cup
    { Some([event_type |-> e, keyword |-> k, timestamp_valid |-> TRUE]) :
        e \in CloseEventTypes, k \in {<<>>, <<"N", "e", "w", "s">>} } \cup
    { Some([event_type |-> "USER_CLOSED_TAB", keyword |-> <<>>,
            timestamp_valid |-> FALSE]) }

\* (datetime.now() - close_time).total_seconds()
SecondsSinceClose == {0, GracePeriod - 1, GracePeriod, DetectionWindow + 1}

CurrentApps == {<<"C", "o", "d", "e">>, <<"c", "h", "r", "o", "m", "e">>}
CurrentTitles == {<<"d", "o", "c", "s">>, <<"n", "e", "w", "s">>, <<"G", "a", "m", "e">>}
\* no URL (None or ""), a site named after the closed keyword, a distraction site
CurrentUrls == {<<>>, <<"n", "e", "w", "s", ".", "i", "o">>,
                <<"g", "a", "m", "e", ".", "i", "o">>}
\* len(recent_events): DISTRACTION_DETECTED / INTERVENTION_SHOWN, limit 5
DistractionCounts == {0, 3}

\* the grace period ends one second early
InGracePeriodOffByOne(time_since_close) == time_since_close < GracePeriod - 1

\* Step 3: `if time_since_close < self._grace_period`
InGracePeriod(time_since_close) == time_since_close < GracePeriod

\* Step 7: the factors summed, in hundredths, clamped to 0..100
Confidence(event_type, time_since_close, current_app, current_title, current_url, distraction_count) ==
    LET time_score == IF GracePeriod <= time_since_close
                            /\ time_since_close <= DetectionWindow
                      THEN 30 ELSE 0
        event_score == CASE event_type \in {"USER_CLOSED_TAB", "USER_CLOSED_WINDOW"} -> 30
                         [] event_type = "USER_MINIMIZED" -> 15
                         [] event_type = "USER_DISMISSED" -> 10
                         [] OTHER -> 0
        app_lower == LowerText(current_app)
        app_score == IF current_app # <<>> /\ \E a \in WorkApps : Contains(app_lower, a)
                     THEN 25
                     ELSE IF /\ current_app # <<>>
                             /\ \E b \in Browsers : Contains(app_lower, b)
                             /\ current_url # <<>>
                             /\ ~MatchesDistraction(current_url)
                          THEN 15 ELSE 0
        context_score == IF /\ current_title # <<>>
                            /\ \E kw \in WORK_KEYWORDS :
                                   Contains(LowerText(current_title), kw)
                         THEN 20 ELSE 0
        penalty == IF distraction_count >= 3 THEN 20 ELSE 0
        sum == time_score + event_score + app_score + context_score - penalty
    IN  IF sum < 0 THEN 0 ELSE IF sum > 100 THEN 100 ELSE sum

NotRecovered(reason) == [is_recovery |-> FALSE, reason |-> reason, confidence |-> 0]

\* detect_recovery: Steps 1 to 7
DetectRecovery(last_close, time_since_close, current_app, current_title, current_url, distraction_count) ==
    IF last_close = Nil THEN NotRecovered("no_close_event")
    ELSE IF ~Val(last_close).timestamp_valid THEN NotRecovered("invalid_timestamp")
    ELSE IF InGracePeriod(time_since_close) THEN NotRecovered("grace_period")
    ELSE IF /\ Val(last_close).keyword # <<>>
            /\ Contains(LowerText(current_title), LowerText(Val(last_close).keyword))
         THEN NotRecovered("closed_keyword")
    ELSE IF MatchesDistraction(current_url) THEN NotRecovered("distraction_url")
    ELSE IF MatchesDistraction(current_title) THEN NotRecovered("distraction_title")
    ELSE LET confidence == Confidence(Val(last_close).event_type, time_since_close,
                                      current_app, current_title, current_url,
                                      distraction_count)
         IN  [is_recovery |-> confidence >= ConfidenceThreshold,
              reason |-> "confidence", confidence |-> confidence]

\* detect_recovery called
DetectRecoveryCall(last_close, time_since_close, current_app, current_title, current_url, distraction_count) ==
    /\ recovery_call' =
         Some([last_close |-> last_close, time_since_close |-> time_since_close,
               current_app |-> current_app, current_title |-> current_title,
               current_url |-> current_url, distraction_count |-> distraction_count,
               result |-> DetectRecovery(last_close, time_since_close, current_app,
                                         current_title, current_url,
                                         distraction_count)])
    /\ UNCHANGED <<walletVars, econVars, appVars, clnVars, enfVars, llm, memVars,
                   audit_records, audit_call, price_call, xfVars, loopVars, lateVars>>

RecoveryNext ==
    \E last_close \in LastCloseEvents, time_since_close \in SecondsSinceClose,
       current_app \in CurrentApps, current_title \in CurrentTitles,
       current_url \in CurrentUrls, distraction_count \in DistractionCounts :
        DetectRecoveryCall(last_close, time_since_close, current_app, current_title,
                           current_url, distraction_count)

RecoveryInit == FreshWallet /\ EconInit /\ AppInit /\ ClnInit /\ EnfInit /\ ExtInit

SpecRecovery == RecoveryInit /\ [][RecoveryNext]_vars

\* C23: a detect_recovery call made less than the grace period after the
\* last close event never returns is_recovery = true, whatever the app,
\* title, URL and recent events.
C23_NoRecoveryInGracePeriod ==
    (/\ recovery_call # Nil
     /\ Val(recovery_call).last_close # Nil
     /\ Val(recovery_call).time_since_close < GracePeriod)
        => ~Val(recovery_call).result.is_recovery

\* one second before the grace period ends, a work app with a work title
\* after the user closed a tab, no recent distractions: not recovered
C23_Witness ==
    /\ recovery_call # Nil
    /\ Val(recovery_call).last_close # Nil
    /\ Val(Val(recovery_call).last_close).event_type = "USER_CLOSED_TAB"
    /\ Val(Val(recovery_call).last_close).timestamp_valid
    /\ Val(recovery_call).time_since_close = GracePeriod - 1
    /\ Val(recovery_call).current_app = <<"C", "o", "d", "e">>
    /\ Val(recovery_call).current_title = <<"d", "o", "c", "s">>
    /\ Val(recovery_call).current_url = <<>>
    /\ Val(recovery_call).distraction_count = 0
    /\ Val(recovery_call).result = NotRecovered("grace_period")

\* C24: detect_recovery returns not-recovered whenever the current title or
\* the current URL contains the keyword that was just closed or any
\* distraction keyword (compared in lower case).
C24_DistractionDisqualifies ==
    (/\ recovery_call # Nil
     /\ Val(recovery_call).last_close # Nil
     /\ LET c == Val(recovery_call)
            kw == LowerText(Val(c.last_close).keyword)
        IN  \/ kw # <<>> /\ Contains(LowerText(c.current_title), kw)
            \/ kw # <<>> /\ Contains(LowerText(c.current_url), kw)
            \/ MatchesDistraction(c.current_title)
            \/ MatchesDistraction(c.current_url))
        => ~Val(recovery_call).result.is_recovery


(***************************************************************************)
(* services/data_transformer.py: DataTransformer.compress_logs_to_block    *)
(* over the activity log that FocusGuardApp._on_activity_detected writes.  *)
(***************************************************************************)
MaxLogs == 3                     \* bound: rows inside the compression window
MaxCompressions == 3             \* bound: compress_logs_to_block calls

\* application names: a focus app, a distraction app, one that is neither
LoggedApps == {<<"C", "o", "d", "e">>, <<"G", "a", "m", "e">>, <<"c", "a", "l", "c">>}
\* focus_apps, distraction_apps: the entries the sample names can match
FocusApps == {<<"c", "o", "d", "e">>}
DistractionApps == {<<"g", "a", "m", "e">>}

\* log_activity(..., duration=0): the row _on_activity_detected inserts
LogActivity(app_name) ==
    /\ Len(activity_logs) < MaxLogs
    /\ activity_logs' = Append(activity_logs, [app_name |-> app_name, duration |-> 0])
    /\ UNCHANGED <<walletVars, econVars, appVars, clnVars, enfVars, llm, memVars,
                   audit_records, callVars, session_blocks, compressions,
                   density_call, insights_call,
                   loopVars, lateVars>>

\* the oldest row leaves the trailing window of get_activity_summary
WindowPasses ==
    /\ activity_logs # <<>>
    /\ activity_logs' = Tail(activity_logs)
    /\ UNCHANGED <<walletVars, econVars, appVars, clnVars, enfVars, llm, memVars,
                   audit_records, callVars, session_blocks, compressions,
                   density_call, insights_call,
                   loopVars, lateVars>>

\* get_activity_summary: one entry per application, latest activity first;
\* the entries carry no total_duration key (Nil)
RECURSIVE GetActivitySummary(_, _)
GetActivitySummary(rows, seen) ==
    IF rows = <<>> THEN <<>>
    ELSE LET row == rows[Len(rows)]
             older == SubSeq(rows, 1, Len(rows) - 1)
         IN  IF row.app_name \in seen
             THEN GetActivitySummary(older, seen)
             ELSE <<[app_name |-> row.app_name, total_duration |-> Nil]>>
                    \o GetActivitySummary(older, seen \cup {row.app_name})

\* `log.get("total_duration", 0)`
TotalDuration(log) == IF log.total_duration = Nil THEN 0 ELSE Val(log.total_duration)

\* twice the weight of an application: 1 for a focus app, 0 for a
\* distraction app, 0.5 for any other
DoubleWeight(app_name) ==
    IF \E kw \in FocusApps : Contains(LowerText(app_name), kw) THEN 2
    ELSE IF \E kw \in DistractionApps : Contains(LowerText(app_name), kw) THEN 0
    ELSE 1

RECURSIVE SumDurations(_, _)
SumDurations(logs, doubled_weighted) ==
    IF logs = <<>> THEN 0
    ELSE (IF doubled_weighted
          THEN DoubleWeight(Head(logs).app_name) * TotalDuration(Head(logs))
          ELSE TotalDuration(Head(logs)))
         + SumDurations(Tail(logs), doubled_weighted)

\* a float as a fraction, or the exception the expression raises
Fraction(num, den) == [error |-> None, num |-> num, den |-> den]
\* a / b
Divide(a, b) ==
    IF b = 0 THEN [error |-> "ZeroDivisionError", num |-> 0, den |-> 0]
    ELSE Fraction(a, b)

\* the guard is missing
TotalIsNeverZero(total_duration) == FALSE

\* `if total_duration == 0: return 0.0`
TotalIsZero(total_duration) == total_duration = 0

\* _calculate_focus_density
CalculateFocusDensity(logs) ==
    LET focus2 == SumDurations(logs, TRUE)
        total == SumDurations(logs, FALSE)
    IN  IF logs = <<>> THEN Fraction(0, 1)
        ELSE IF TotalIsZero(total) THEN Fraction(0, 1)
        ELSE IF total # 0 /\ focus2 > 2 * total THEN Fraction(1, 1)
        ELSE Divide(focus2, 2 * total)

\* every window is taken to hold logs
NeverNoLogs(logs) == FALSE

\* `if not logs: return None`
NoLogs(logs) == logs = <<>>

\* the session_blocks row built from the summary: focus density, distraction
\* count, dominant apps (at most 5, by duration, ties in summary order),
\* energy level in tenths, activity switches
SessionBlock(logs) ==
    [focus_density |-> CalculateFocusDensity(logs),
     distraction_count |->
        Cardinality({i \in DOMAIN logs :
                        \E kw \in DistractionApps :
                            Contains(LowerText(logs[i].app_name), kw)}),
     dominant_apps |-> [i \in 1..(IF Len(logs) < 5 THEN Len(logs) ELSE 5) |->
                            logs[i].app_name],
     energy_level |-> IF Len(logs) < 10 THEN Len(logs) ELSE 10,
     activity_switches |-> Len(logs)]

\* compress_logs_to_block: an exception raised on the way is logged and
\* None is returned without a block
CompressLogsToBlock ==
    /\ compressions.empty + compressions.nonempty < MaxCompressions
    /\ LET logs == GetActivitySummary(activity_logs, {})
           block == SessionBlock(logs)
       IN  /\ compressions' =
                IF activity_logs = <<>>
                THEN [compressions EXCEPT !.empty = @ + 1]
                ELSE [compressions EXCEPT !.nonempty = @ + 1]
           /\ session_blocks' =
                IF NoLogs(logs) \/ block.focus_density.error # None
                THEN session_blocks
                ELSE Append(session_blocks, block)
    /\ UNCHANGED <<walletVars, econVars, appVars, clnVars, enfVars, llm, memVars,
                   audit_records, callVars, activity_logs, density_call, insights_call,
                   loopVars, lateVars>>

TransformerNext ==
    \/ \E app_name \in LoggedApps : LogActivity(app_name)
    \/ WindowPasses
    \/ CompressLogsToBlock

TransformerInit == FreshWallet /\ EconInit /\ AppInit /\ ClnInit /\ EnfInit /\ ExtInit

SpecTransformer == TransformerInit /\ [][TransformerNext]_vars

C26_FocusDensityIsWeightedShare ==
    \A i \in DOMAIN session_blocks :
        LET b == session_blocks[i]
            weights == {DoubleWeight(b.dominant_apps[j]) : j \in DOMAIN b.dominant_apps}
        IN  /\ weights = {2} => (b.focus_density.num = b.focus_density.den)
            /\ weights = {1} => (2 * b.focus_density.num = b.focus_density.den)


(***************************************************************************)
(* DataTransformer._calculate_focus_density as a function of its logs.     *)
(***************************************************************************)
MaxDensityLogs == 2              \* bound: logs passed in one call

\* a log with its total_duration key missing, or set to 0, 1 or 2 seconds
DensityLogs ==
    [app_name : LoggedApps, total_duration : {Nil, Some(0), Some(1), Some(2)}]

RECURSIVE LogLists(_)
LogLists(n) ==
    IF n = 0 THEN {<<>>}
    ELSE LogLists(n - 1)
            \cup {Append(logs, log) : logs \in LogLists(n - 1), log \in DensityLogs}

\* _calculate_focus_density called
CalculateFocusDensityCall(logs) ==
    /\ density_call' = Some([logs |-> logs, result |-> CalculateFocusDensity(logs)])
    /\ UNCHANGED <<walletVars, econVars, appVars, clnVars, enfVars, llm, memVars,
                   audit_records, callVars, activity_logs, session_blocks,
                   compressions, insights_call,
                   loopVars, lateVars>>

DensityNext == \E logs \in LogLists(MaxDensityLogs) : CalculateFocusDensityCall(logs)

DensityInit == FreshWallet /\ EconInit /\ AppInit /\ ClnInit /\ EnfInit /\ ExtInit

SpecDensity == DensityInit /\ [][DensityNext]_vars

\* C27: for every list of logs whose durations sum to zero, the empty list
\* included, _calculate_focus_density returns 0 and raises no
\* ZeroDivisionError.
C27_ZeroDurationDensityIsZero ==
    (density_call # Nil /\ SumDurations(Val(density_call).logs, FALSE) = 0)
        => Val(density_call).result = Fraction(0, 1)

\* a focus app and a neutral app, both without duration: density 0
C27_Witness ==
    /\ density_call # Nil
    /\ Len(Val(density_call).logs) = 2
    /\ Val(density_call).logs[1].app_name = <<"C", "o", "d", "e">>
    /\ Val(density_call).logs[1].total_duration = Some(0)
    /\ Val(density_call).logs[2].total_duration = Nil
    /\ Val(density_call).result = Fraction(0, 1)


(***************************************************************************)
(* DataTransformer.generate_insights as a function of the session blocks   *)
(* get_recent_session_blocks returns, latest first.  Focus density is in   *)
(* hundredths and energy level in tenths.                                  *)
(***************************************************************************)
MaxInsightBlocks == 7            \* bound: blocks read by one call

InsightBlocks ==
    {[focus_density |-> 90, energy_level |-> 8],
     [focus_density |-> 85, energy_level |-> 2]}

\* the three blocks of the scenario: focus density 0.9, 0.85, 0.95 and
\* energy 0.8, 0.2, 0.2
ScenarioBlocks ==
    <<[focus_density |-> 90, energy_level |-> 8],
      [focus_density |-> 85, energy_level |-> 2],
      [focus_density |-> 95, energy_level |-> 2]>>

RECURSIVE BlockLists(_)
BlockLists(n) ==
    IF n = 0 THEN {<<>>}
    ELSE BlockLists(n - 1)
            \cup {Append(blocks, b) : blocks \in BlockLists(n - 1), b \in InsightBlocks}

RECURSIVE SumEnergy(_)
SumEnergy(blocks) ==
    IF blocks = <<>> THEN 0 ELSE Head(blocks).energy_level + SumEnergy(Tail(blocks))

\* `energy_levels[:2]`
RecentTwo(blocks) == SubSeq(blocks, 1, IF Len(blocks) < 2 THEN Len(blocks) ELSE 2)

\* `energy_levels[:5]`
RecentFive(blocks) == SubSeq(blocks, 1, IF Len(blocks) < 5 THEN Len(blocks) ELSE 5)

\* _generate_fatigue_insight: `recent_avg < avg_energy * 0.6` is high,
\* `recent_avg < avg_energy * 0.8` moderate, else normal.  The means are
\* compared exactly; where recent_avg equals the product exactly and is not
\* zero, the floating-point comparison may come out either way
\* (rounds_below).
FatigueLevel(blocks, rounds_below) ==
    LET recent == RecentFive(blocks)
        lhs == 10 * SumEnergy(recent) * Len(blocks)
        rhs(tenths) == tenths * SumEnergy(blocks) * Len(recent)
        Less(tenths) == \/ lhs < rhs(tenths)
                        \/ lhs = rhs(tenths) /\ SumEnergy(blocks) # 0 /\ rounds_below
    IN  IF Less(6) THEN "high" ELSE IF Less(8) THEN "moderate" ELSE "normal"

\* generate_insights: nothing without blocks; else the fatigue insight is
\* written as FATIGUE_SIGNALS with its fatigue level.  (The peak-hours,
\* distraction and application insights rest on block fields that are not
\* modelled.)
GenerateInsights(blocks, rounds_below) ==
    IF blocks = <<>>
    THEN [types |-> {}, fatigue_level |-> None]
    ELSE [types |-> {"FATIGUE_SIGNALS"},
          fatigue_level |-> FatigueLevel(blocks, rounds_below)]

\* generate_insights called
GenerateInsightsCall(blocks, rounds_below) ==
    /\ insights_call' = Some([blocks |-> blocks,
                              insights |-> GenerateInsights(blocks, rounds_below)])
    /\ UNCHANGED <<walletVars, econVars, appVars, clnVars, enfVars, llm, memVars,
                   audit_records, callVars, activity_logs, session_blocks,
                   compressions, density_call,
                   loopVars, lateVars>>

InsightsNext ==
    \E blocks \in BlockLists(MaxInsightBlocks) \cup {ScenarioBlocks},
       rounds_below \in BOOLEAN :
        GenerateInsightsCall(blocks, rounds_below)

InsightsInit == FreshWallet /\ EconInit /\ AppInit /\ ClnInit /\ EnfInit /\ ExtInit

SpecInsights == InsightsInit /\ [][InsightsNext]_vars

\* C28 (amended): given exactly the three blocks of the scenario,
\* generate_insights produces a fatigue insight whose fatigue_level is
\* 'normal'; so it does for any one to five blocks, the recent five then
\* being all of them.
C28_FewBlocksFatigueNormal ==
    (insights_call # Nil
        /\ Len(Val(insights_call).blocks) \in 1..5)
        => /\ "FATIGUE_SIGNALS" \in Val(insights_call).insights.types
           /\ Val(insights_call).insights.fatigue_level = "normal"

\* the scenario has been analysed: fatigue level normal
C28_Witness ==
    /\ insights_call # Nil
    /\ Val(insights_call).blocks = ScenarioBlocks
    /\ Val(insights_call).insights.fatigue_level = "normal"

\* C28 as stated: the three blocks of the scenario give a fatigue insight
\* whose fatigue_level is 'moderate' or 'high'.
C28_ScenarioFlagsFatigue ==
    (insights_call # Nil /\ Val(insights_call).blocks = ScenarioBlocks)
        => Val(insights_call).insights.fatigue_level \in {"moderate", "high"}


(***************************************************************************)
(* Supervision loop with its stop: `while self._running` in               *)
(* SupervisionEngine.run, _wait_next_check slice by slice, and stop().     *)
(* The body of an iteration is that of the application model; eng.pc       *)
(* "loop" is the test of the while loop, "wait" the test inside            *)
(* _wait_next_check and "sleep" its time.sleep.                            *)
(***************************************************************************)
\* `while self._running:` -- the next iteration begins, or run() returns
EngineLoopTest ==
    /\ eng.pc = "loop"
    /\ IF running
       THEN /\ eng' = [eng EXCEPT !.pc = "top", !.path = None]
            /\ tick_starts' = Append(tick_starts, now)
       ELSE /\ eng' = [eng EXCEPT !.pc = "ended"]
            /\ UNCHANGED tick_starts
    /\ UNCHANGED <<walletVars, econVars, now, amVars, check_interval, guiVars,
                   clnVars, enfVars, llm, memVars, audit_records, callVars, xfVars,
                   running, stop_request, lateVars>>

\* `while remaining > 0:`
KeepWaitingUntilDue == eng.remaining > 0

\* `while remaining > 0 and self._running:`
KeepWaiting == eng.remaining > 0 /\ running

\* the test of the loop in _wait_next_check: another slice, or the wait
\* returns and run() is back at its own loop test
EngineWaitTest ==
    /\ eng.pc = "wait"
    /\ eng' = [eng EXCEPT !.pc = IF KeepWaiting THEN "sleep" ELSE "loop"]
    /\ UNCHANGED <<walletVars, econVars, now, amVars, check_interval, guiVars,
                   clnVars, enfVars, extVars>>

\* `sleep_time = min(1.0, float(remaining))`
SleepTime(remaining) == IF remaining < 1 THEN remaining ELSE 1

\* `time_module.sleep(sleep_time); remaining -= sleep_time`
EngineSleep ==
    /\ eng.pc = "sleep"
    /\ now < MaxTime
    /\ now' = now + SleepTime(eng.remaining)
    /\ eng' = [eng EXCEPT !.pc = "wait",
                          !.remaining = eng.remaining - SleepTime(eng.remaining)]
    /\ UNCHANGED <<walletVars, econVars, amVars, check_interval, guiVars,
                   clnVars, enfVars, extVars>>

\* a second of analyze_activity, which run() calls itself: the attempts
\* and the backoff sleeps between them
EngineOracleSecond ==
    /\ eng.pc = "oracle"
    /\ Tick

\* _stop_monitoring on the GUI thread: `if self._engine.isRunning():
\* self._engine.stop()`, which clears _running
Stop ==
    /\ stop_request = Nil
    /\ eng.pc # "ended"
    /\ now < MaxTime
    /\ running' = FALSE
    /\ stop_request' = Some([at |-> now, pc |-> eng.pc, ticks |-> Len(tick_starts)])
    /\ UNCHANGED <<walletVars, econVars, appVars, clnVars, enfVars, llm, memVars,
                   audit_records, callVars, xfVars, tick_starts, lateVars>>

LoopNext ==
    \/ EngineLoopTest
    \/ EngineSnoozeCheck
    \/ \E activity \in Activities : EngineReadActivity(activity)
    \/ EngineStrictCheck
    \/ EngineOracleSecond
    \/ \E verdict \in Verdicts : EngineOracleReturn(verdict)
    \/ \E point \in RaisePoints : EngineRaise(point)
    \/ EngineWaitTest
    \/ EngineSleep
    \/ OnShowDialogRequested
    \/ Stop

\* The engine thread has set _running and entered its first iteration
LoopInit == WalletInit /\ EconInit /\ AppInit /\ ClnInit /\ EnfInit /\ ExtInit

SpecLoop == LoopInit /\ [][LoopNext]_vars

\* The engine thread keeps running: its loop tests are evaluated and its
\* sleeps return.
SpecLoopFair ==
    SpecLoop /\ WF_vars(EngineLoopTest \/ EngineWaitTest \/ EngineSleep)

\* stop() was called while run() was inside _wait_next_check
StoppedWhileWaiting ==
    /\ stop_request # Nil
    /\ Val(stop_request).pc \in {"wait", "sleep"}

\* C29: a stop request issued while the loop waits between ticks makes the
\* loop exit after at most one sleep slice of at most one second, never
\* after the full remaining interval, and no further tick starts after the
\* request.
C29_StopHonoredWithinOneSlice ==
    /\ [](StoppedWhileWaiting
            => /\ now <= Val(stop_request).at + 1
               /\ Len(tick_starts) = Val(stop_request).ticks
               /\ eng.pc \in {"wait", "sleep", "loop", "ended"})
    /\ (StoppedWhileWaiting ~> eng.pc = "ended")

\* stopped during a sleep with more than a second of the interval left:
\* run() has returned one second after the request
C29_Witness ==
    /\ StoppedWhileWaiting
    /\ Val(stop_request).pc = "sleep"
    /\ eng.pc = "ended"
    /\ eng.remaining > 1
    /\ now = Val(stop_request).at + 1

\* C30: oracle calls never run on the thread that schedules supervision
\* ticks: the next tick starts one check interval after the current one
\* started, not delayed by the duration of the current tick's oracle call
\* with its retries and backoff sleeps.
C30_NextTickNotDelayedByOracle ==
    [][Len(tick_starts') > Len(tick_starts)
          => now' - tick_starts[Len(tick_starts)] = check_interval]_vars


(***************************************************************************)
(* Strict mode: ActionManager._handle_strict_mode_enhanced with            *)
(* EnforcementService.enable_strict_monitoring and its end timers.         *)
(***************************************************************************)
MaxStrictActions == 2            \* bound: STRICT_MODE choices explored
MaxStrictTime == 1860            \* bound: seconds explored
StrictTimeStep == 30             \* seconds between the instants looked at

\* enable_strict_monitoring: disable_strict_monitoring, set the flag, start
\* the check timer and a new single-shot end timer held in a local variable
EnableStrictMonitoring(duration_minutes) ==
    /\ strict_mode_active' = TRUE
    /\ strict_end_timers' =
         strict_end_timers \cup {now + duration_minutes * SecondsPerMinute}

\* handle_action("STRICT_MODE", payload): _handle_strict_mode_enhanced sets
\* the deadline of the ActionManager and enables strict monitoring
HandleStrictModeEnhanced(payload) ==
    /\ handled < MaxStrictActions
    /\ HandleAction("STRICT_MODE", payload)
    /\ EnableStrictMonitoring(DurationMinutes(payload, DefaultStrictMinutes))
    /\ UNCHANGED <<walletVars, econVars, now, engVars, guiVars, clnVars, enfVars,
                   llm, memVars, audit_records, callVars, xfVars, loopVars,
                   action_raised, chosen, moreVars>>

\* an end timer fires: disable_strict_monitoring
StrictEndTimerFire(t) ==
    /\ t \in strict_end_timers
    /\ t <= now
    /\ strict_end_timers' = strict_end_timers \ {t}
    /\ strict_mode_active' = DisableStrictMonitoring
    /\ UNCHANGED <<walletVars, econVars, appVars, clnVars, enfVars,
                   llm, memVars, audit_records, callVars, xfVars, loopVars,
                   action_raised, chosen, moreVars>>

\* time passes while no end timer is due
StrictTimePasses ==
    /\ now < MaxStrictTime
    /\ \A t \in strict_end_timers : t > now
    /\ now' = now + StrictTimeStep
    /\ UNCHANGED <<walletVars, econVars, amVars, engVars, guiVars, clnVars, enfVars,
                   extVars>>

StrictPayloads ==
    {[EmptyPayload EXCEPT !.duration_minutes = d] : d \in Durations}

StrictNext ==
    \/ \E payload \in StrictPayloads : HandleStrictModeEnhanced(payload)
    \/ \E t \in 0..MaxStrictTime : StrictEndTimerFire(t)
    \/ StrictTimePasses

StrictInit == FreshWallet /\ EconInit /\ AppInit /\ ClnInit /\ EnfInit /\ ExtInit

SpecStrict == StrictInit /\ [][StrictNext]_vars

\* C35: when STRICT_MODE is chosen again while strict monitoring is active,
\* strict monitoring stays active until the newest requested deadline: the
\* end timer of the earlier request never disables it early, so
\* EnforcementService.is_in_strict_mode() agrees with
\* ActionManager.is_in_strict_mode() before that deadline.
C35_RenewedStrictModeStaysActive ==
    (strict_mode_until # Nil /\ now < Val(strict_mode_until)) => strict_mode_active


(***************************************************************************)
(* Snooze periods: SNOOZE chosen, chosen again, cancelled or run out.      *)
(***************************************************************************)
MaxSnoozeActions == 3            \* bound: SNOOZE choices and cancels explored
MaxSnoozeTime == 420             \* bound: seconds explored

\* handle_action("SNOOZE", payload): _handle_snooze starts the one timer of
\* the ActionManager, or restarts it when it is running
SnoozeChosen(payload) ==
    /\ handled + snooze_cancels < MaxSnoozeActions
    /\ HandleAction("SNOOZE", payload)
    /\ snooze_periods' = IF IsSnoozed THEN snooze_periods ELSE snooze_periods + 1
    /\ UNCHANGED <<walletVars, econVars, now, engVars, guiVars, clnVars, enfVars,
                   llm, memVars, audit_records, callVars, xfVars, loopVars,
                   action_raised, chosen, strictVars, forced_callbacks,
                   snooze_cancels, restVars>>

\* cancel_snooze: `if self._snooze_timer and self._snooze_timer.isActive():
\* self._snooze_timer.stop()`
CancelSnooze ==
    /\ handled + snooze_cancels < MaxSnoozeActions
    /\ snooze_timer' = Nil
    /\ snooze_cancels' = IF IsSnoozed THEN snooze_cancels + 1 ELSE snooze_cancels
    /\ UNCHANGED <<walletVars, econVars, now, temp_whitelist, whitelist_requests,
                   strict_mode_until, handled, engVars, guiVars, clnVars, enfVars,
                   llm, memVars, audit_records, callVars, xfVars, loopVars,
                   action_raised, chosen, strictVars, forced_callbacks,
                   snooze_periods, restVars>>

\* a minute passes while the timer is not due
SnoozeTimePasses ==
    /\ now < MaxSnoozeTime
    /\ snooze_timer # Nil => Val(snooze_timer) > now
    /\ now' = now + SecondsPerMinute
    /\ UNCHANGED <<walletVars, econVars, amVars, engVars, guiVars, clnVars, enfVars,
                   extVars>>

SnoozeNext ==
    \/ \E payload \in StrictPayloads : SnoozeChosen(payload)
    \/ CancelSnooze
    \/ SnoozeExpired
    \/ SnoozeTimePasses

SnoozeInit == FreshWallet /\ EconInit /\ AppInit /\ ClnInit /\ EnfInit /\ ExtInit

SpecSnooze == SnoozeInit /\ [][SnoozeNext]_vars

\* C36: at most one snooze deadline is pending at any time: SNOOZE chosen
\* while snoozed replaces the pending deadline, so every snoozed period
\* that was not cancelled has ended with exactly one forced callback or is
\* still running, a cancelled one produces none, and a callback or a cancel
\* leaves no deadline pending.
C36_OneCallbackPerSnoozedPeriod ==
    /\ [](snooze_periods =
            forced_callbacks + snooze_cancels + (IF IsSnoozed THEN 1 ELSE 0))
    /\ [][/\ forced_callbacks' # forced_callbacks =>
                /\ IsSnoozed /\ ~IsSnoozed'
                /\ Val(snooze_timer) <= now
                /\ forced_callbacks' = forced_callbacks + 1
          /\ snooze_cancels' # snooze_cancels =>
                ~IsSnoozed' /\ forced_callbacks' = forced_callbacks
          /\ (handled' # handled /\ IsSnoozed) =>
                /\ IsSnoozed'
                /\ Val(snooze_timer') >= now + SecondsPerMinute
                /\ snooze_periods' = snooze_periods]_vars

\* a snooze chosen again while it ran has ended with one callback
C36_Witness ==
    /\ handled = 2
    /\ snooze_periods = 1
    /\ forced_callbacks = 1
    /\ ~IsSnoozed


(***************************************************************************)
(* Trust score: handle_action with a trust impact, read back afterwards.   *)
(***************************************************************************)
MaxTrustActions == 3             \* bound: handle_action calls explored

\* the option's trust_impact as the dialog hands it on
TrustImpacts == {-90, -5, -2, 0, 5, 25}

\* update_trust_score: `UPDATE user_profile SET value = CAST(MAX(0, MIN(100,
\* CAST(value AS INTEGER) + ?)) AS TEXT) ... RETURNING CAST(value AS INTEGER)`:
\* the value the statement writes inside the connection's open transaction
\* and returns; the function does not commit
Min(a, b) == IF a <= b THEN a ELSE b

UpdateTrustScore(value, delta) == Max(0, Min(100, value + delta))

\* ensure_initialized: `try: yield conn  finally: conn.close()`: the
\* connection is closed without a commit
EnsureInitializedCommits == FALSE

\* update_trust of _process_action: `with ensure_initialized(config.db_path)
\* as conn: result = update_trust_score(conn, delta)`: the committed value
\* once the block is left; closing a connection rolls its open transaction
\* back
UpdateTrust(value, delta) ==
    IF EnsureInitializedCommits THEN UpdateTrustScore(value, delta) ELSE value

\* handle_action(action_type, payload, trust_impact, update_trust):
\* `if trust_impact != 0: new_score = update_trust_fn(trust_impact)`, then
\* the dispatch
HandleActionTrust(action_type, payload, trust_impact) ==
    /\ handled < MaxTrustActions
    /\ HandleAction(action_type, payload)
    /\ IF trust_impact # 0
       THEN /\ trust_call' = Some([previous |-> trust_score,
                                   delta |-> trust_impact,
                                   new_score |-> UpdateTrustScore(trust_score,
                                                                  trust_impact)])
            /\ trust_score' = UpdateTrust(trust_score, trust_impact)
       ELSE /\ trust_call' = Nil
            /\ UNCHANGED trust_score
    /\ UNCHANGED <<walletVars, econVars, now, engVars, guiVars, clnVars, enfVars,
                   llm, memVars, audit_records, callVars, xfVars, loopVars,
                   action_raised, chosen, strictVars, snoozeVars, response>>

TrustNext ==
    \E action_type \in ActionTypes, payload \in StrictPayloads,
       trust_impact \in TrustImpacts :
        HandleActionTrust(action_type, payload, trust_impact)

TrustInit == FreshWallet /\ EconInit /\ AppInit /\ ClnInit /\ EnfInit /\ ExtInit

SpecTrust == TrustInit /\ [][TrustNext]_vars

\* C38: after an action with trust_impact d # 0 has been handled, the trust
\* score a new database connection reads is clamp(previous + d, 0, 100):
\* the update is durable and applied exactly once.
C38_TrustUpdateDurablyAppliedOnce ==
    trust_call # Nil =>
        trust_score = Max(0, Min(100, Val(trust_call).previous + Val(trust_call).delta))


(***************************************************************************)
(* Recovery: the oracle's verdict carries force_cease_fire.                *)
(***************************************************************************)
\* `if confidence >= 60:`
InterventionConfidence == 60

\* The verdicts the prompt of analyze_activity asks for: DISTRACTED with
\* is_distracted, FOCUSED and RECOVERY without, and force_cease_fire true
\* only with status RECOVERY.
Responses ==
    { r \in [status : {"FOCUSED", "DISTRACTED", "RECOVERY"},
             is_distracted : BOOLEAN,
             confidence : {10, InterventionConfidence, 90},
             force_cease_fire : BOOLEAN] :
        /\ r.is_distracted = (r.status = "DISTRACTED")
        /\ r.force_cease_fire = (r.status = "RECOVERY") }

\* step 4 of run(): `if response.get("is_distracted", False):` and
\* `if confidence >= 60:`
ResponseDispatches(r) == r.is_distracted /\ r.confidence >= InterventionConfidence

\* analyze_activity returns a response; step 4 reads is_distracted and
\* confidence, and _show_intervention_dialog reads analysis_summary, options
\* and thought_trace.  run() reads no other field: status and
\* force_cease_fire reach no signal and no call.
EngineResponseReturn(r) ==
    /\ eng.pc = "oracle"
    /\ eng' = Waiting("full", check_interval)
    /\ response' = Some(r)
    /\ IF ResponseDispatches(r)
       THEN /\ ReadBalance
            /\ gui_queue' = Append(gui_queue, ShowDialogRequested)
       ELSE UNCHANGED <<walletVars, gui_queue>>
    /\ UNCHANGED <<econVars, now, amVars, check_interval, dialog, audit_workers,
                   gui_timers, choices, clnVars, enfVars, llm, memVars,
                   audit_records, callVars, xfVars, loopVars, action_raised,
                   chosen, strictVars, snoozeVars, trustVars>>

CeaseFireNext ==
    \/ EngineSnoozeCheck
    \/ \E activity \in Activities : EngineReadActivity(activity)
    \/ EngineStrictCheck
    \/ \E r \in Responses : EngineResponseReturn(r)
    \/ EngineWake
    \/ Tick
    \/ OnShowDialogRequested

CeaseFireInit == WalletInit /\ EconInit /\ AppInit /\ ClnInit /\ EnfInit /\ ExtInit

SpecCeaseFire == CeaseFireInit /\ [][CeaseFireNext]_vars

\* the latest tick's verdict carried force_cease_fire
CeaseFireVerdict == response # Nil /\ Val(response).force_cease_fire

\* C39: when the oracle's verdict carries force_cease_fire (status RECOVERY),
\* no new intervention is dispatched for that tick, and every intervention
\* dialog that was open is closed as a result of it: at the latest when the
\* wait of that tick is over, the dialog is not visible.
C39_CeaseFireClosesOpenDialogs ==
    /\ [][(eng.pc = "oracle" /\ eng'.pc = "wait" /\ CeaseFireVerdict')
             => gui_queue' = gui_queue]_vars
    /\ []((CeaseFireVerdict /\ eng.pc = "wait" /\ eng.remaining = 0)
             => ~dialog.visible)

====
